---- MODULE Spec2Model ----
(***************************************************************************)
(* Model of the line normalization and merge pipeline of hrshadhin/hosts   *)
(* (src/helpers.py): normalize_rule, strip_rule, matches_exclusions and    *)
(* the per-line loop of write_final_file.                                  *)
(*                                                                         *)
(* A Python str is modelled as a sequence of one-character strings, so     *)
(* that slicing, searching and the regular expressions of the source can   *)
(* be computed character by character.  Python's None is the value None    *)
(* below, which no modelled str can equal.                                 *)
(***************************************************************************)
EXTENDS Integers, Sequences, FiniteSets, TLC

\* ------------------------------------------------------------------------
\* Character classes of Python's re module, restricted to ASCII
\* ------------------------------------------------------------------------

\* \d
\* The decimal digits in order
DigitSeq == <<"0", "1", "2", "3", "4", "5", "6", "7", "8", "9">>

Digits == {"0", "1", "2", "3", "4", "5", "6", "7", "8", "9"}

UpperCase == <<"A", "B", "C", "D", "E", "F", "G", "H", "I", "J", "K", "L", "M",
               "N", "O", "P", "Q", "R", "S", "T", "U", "V", "W", "X", "Y", "Z">>

LowerCase == <<"a", "b", "c", "d", "e", "f", "g", "h", "i", "j", "k", "l", "m",
               "n", "o", "p", "q", "r", "s", "t", "u", "v", "w", "x", "y", "z">>

Letters == {UpperCase[i] : i \in 1..26} \cup {LowerCase[i] : i \in 1..26}

\* [a-zA-Z]
IsAlpha(c) == c \in Letters

\* The ASCII whitespace TLA+ has no escape for, written as the characters
\* themselves: vertical tab (0x0B) and the file, group, record and unit
\* separators (0x1C to 0x1F)
VT == ""
FS == ""
GS == ""
RS == ""
US == ""

\* \s on str, which is also what str.strip() and str.split() take as
\* whitespace: "\t\n\x0b\x0c\r\x1c\x1d\x1e\x1f "
SpaceChars == {" ", "\t", "\n", VT, "\f", "\r", FS, GS, RS, US}

IsSpace(c) == c \in SpaceChars

\* [\w\.-]
HostChars == Letters \cup Digits \cup {"_", ".", "-"}

\* . (any character but a newline)
IsDot(c) == c # "\n"

\* str.lower() on one character
LowerChar(c) ==
    IF \E i \in 1..26 : UpperCase[i] = c
    THEN LowerCase[CHOOSE i \in 1..26 : UpperCase[i] = c]
    ELSE c

\* str.lower()
Lower(s) == [i \in 1..Len(s) |-> LowerChar(s[i])]

\* ------------------------------------------------------------------------
\* Python str operations used by the source
\* ------------------------------------------------------------------------

None == <<"None">>

Min(S) == CHOOSE x \in S : \A y \in S : x <= y

Max(S) == CHOOSE x \in S : \A y \in S : x >= y

\* First position j >= i at which s[j] is not in the character class
\* (Len(s)+1 when the class runs to the end): where a greedy [class]*
\* started at i stops.
RunEnd(s, i, class) ==
    Min({j \in i..(Len(s) + 1) : j = Len(s) + 1 \/ s[j] \notin class})

\* First position j >= i at which s[j] is one of the characters stops
\* (Len(s)+1 when there is none): where a greedy [^stops]* started at i stops.
ScanTo(s, i, stops) ==
    Min({j \in i..(Len(s) + 1) : j = Len(s) + 1 \/ s[j] \in stops})

\* needle in s, for a non-empty needle
Contains(s, needle) ==
    \E i \in 1..Len(s) :
        /\ i + Len(needle) - 1 <= Len(s)
        /\ SubSeq(s, i, i + Len(needle) - 1) = needle

\* s.find(c) for a one-character c: 0-based index of the first occurrence, -1 if none
Find(s, c) ==
    IF \E i \in 1..Len(s) : s[i] = c
    THEN Min({i \in 1..Len(s) : s[i] = c}) - 1
    ELSE -1

\* s[:n], with Python's meaning of a negative n
SliceTo(s, n) ==
    IF n >= 0
    THEN SubSeq(s, 1, IF n < Len(s) THEN n ELSE Len(s))
    ELSE SubSeq(s, 1, IF Len(s) + n > 0 THEN Len(s) + n ELSE 0)

\* s.rstrip(chars)
RStrip(s, chars) ==
    LET keep == {j \in 1..Len(s) : s[j] \notin chars}
    IN  IF keep = {} THEN <<>> ELSE SubSeq(s, 1, Max(keep))

\* s.strip()
Strip(s) ==
    LET keep == {j \in 1..Len(s) : ~IsSpace(s[j])}
    IN  IF keep = {} THEN <<>> ELSE SubSeq(s, Min(keep), Max(keep))

\* s.split(): the maximal runs of non-whitespace characters, in order
RECURSIVE SplitFrom(_, _)
SplitFrom(s, i) ==
    LET b == RunEnd(s, i, SpaceChars)
    IN  IF b > Len(s) THEN <<>>
        ELSE LET e == ScanTo(s, b, SpaceChars)
             IN  <<SubSeq(s, b, e - 1)>> \o SplitFrom(s, e)

Split(s) == SplitFrom(s, 1)

\* ------------------------------------------------------------------------
\* normalize_rule (src/helpers.py 633-728)
\* ------------------------------------------------------------------------

\* A failed match of a regular expression (re.search returned None)
NoMatch == [ok |-> FALSE, key |-> <<>>, suffix |-> <<>>]

\* \d{1,3}\. at position i: the position after the dot, 0 when it does not
\* match (i = 0 propagates an earlier failure).  The digit run is delimited
\* by the dot, so it must be 1 to 3 digits long exactly.
DotGroup(s, i) ==
    IF i = 0 THEN 0
    ELSE LET j == RunEnd(s, i, Digits)
         IN  IF j - i >= 1 /\ j - i <= 3 /\ j <= Len(s) /\ s[j] = "."
             THEN j + 1 ELSE 0

\* (\d{1,3}\.){3}\d{1,3}\s+ at position i: the position after the
\* whitespace, 0 when it does not match
IpSpace(s, i) ==
    LET g == DotGroup(s, DotGroup(s, DotGroup(s, i)))
    IN  IF g = 0 THEN 0
        ELSE LET j == RunEnd(s, g, Digits)
             IN  IF j - g >= 1 /\ j - g <= 3 /\ j <= Len(s) /\ IsSpace(s[j])
                 THEN RunEnd(s, j, SpaceChars) ELSE 0

\* HostEnd without the final [a-zA-Z]: the group is the whole run [\w\.-]+
HostEnd_no_final_letter(s, h) ==
    LET r == RunEnd(s, h, HostChars)
    IN  IF r - h < 2 THEN 0 ELSE r - 1

\* ([\w\.-]+[a-zA-Z]) at position h: the position of the last character of
\* the group, 0 when it does not match.  The greedy run backtracks to its
\* last letter, and at least one character must precede that letter.
HostEnd(s, h) ==
    LET r == RunEnd(s, h, HostChars)
        ends == {k \in (h + 1)..(r - 1) : IsAlpha(s[k])}
    IN  IF ends = {} THEN 0 ELSE Max(ends)

\* A variant in which "." matches a newline too
DotStar_dotall(s, k) == SubSeq(s, k, Len(s))

\* (.*) at position k: the text up to the next newline
DotStar(s, k) == SubSeq(s, k, ScanTo(s, k, {"\n"}) - 1)

\* ^\s*(\d{1,3}\.){3}\d{1,3}\s+([\w\.-]+[a-zA-Z])(.*)   groups 2 and 3
Regex1(rule) ==
    LET h == IpSpace(rule, RunEnd(rule, 1, SpaceChars))
    IN  IF h = 0 THEN NoMatch
        ELSE LET e == HostEnd(rule, h)
             IN  IF e = 0 THEN NoMatch
                 ELSE [ok |-> TRUE, key |-> SubSeq(rule, h, e),
                       suffix |-> DotStar(rule, e + 1)]

\* ^\s*(\d{1,3}\.\d{1,3}\.\d{1,3}\.\d{1,3})\s+(\d{1,3}\.\d{1,3}\.\d{1,3}\.\d{1,3})\s*(.*)
\* groups 2 and 3; the last \d{1,3} is greedy and takes at most 3 digits
Regex2(rule) ==
    LET h == IpSpace(rule, RunEnd(rule, 1, SpaceChars))
    IN  IF h = 0 THEN NoMatch
        ELSE LET g == DotGroup(rule, DotGroup(rule, DotGroup(rule, h)))
             IN  IF g = 0 THEN NoMatch
                 ELSE LET j == RunEnd(rule, g, Digits)
                          e == IF j - g > 3 THEN g + 3 ELSE j
                      IN  IF j = g THEN NoMatch
                          ELSE [ok |-> TRUE, key |-> SubSeq(rule, h, e - 1),
                                suffix |-> DotStar(rule, RunEnd(rule, e, SpaceChars))]

\* ^\s*([\w\.-]+[a-zA-Z])(.*)   groups 1 and 2
Regex3(rule) ==
    LET h == RunEnd(rule, 1, SpaceChars)
        e == HostEnd(rule, h)
    IN  IF e = 0 THEN NoMatch
        ELSE [ok |-> TRUE, key |-> SubSeq(rule, h, e),
              suffix |-> DotStar(rule, e + 1)]

\* normalize_response appending the suffix comment for an empty target_ip too
normalize_response_suffix_always(extracted_hostname, extracted_suffix, target_ip, keep_domain_comments) ==
    LET comment == IF keep_domain_comments /\ extracted_suffix # <<>>
                   THEN <<" ", "#">> \o extracted_suffix ELSE <<>>
    IN  IF Len(target_ip) > 0
        THEN <<extracted_hostname,
               target_ip \o <<" ">> \o extracted_hostname \o comment \o <<"\n">> >>
        ELSE <<extracted_hostname, extracted_hostname \o comment \o <<"\n">> >>

\* The nested function normalize_response; target_ip and
\* keep_domain_comments are the variables it closes over.
normalize_response(extracted_hostname, extracted_suffix, target_ip, keep_domain_comments) ==
    IF Len(target_ip) > 0
    THEN <<extracted_hostname,
           target_ip \o <<" ">> \o extracted_hostname
             \o (IF keep_domain_comments /\ extracted_suffix # <<>>
                 THEN <<" ", "#">> \o extracted_suffix ELSE <<>>)
             \o <<"\n">> >>
    ELSE <<extracted_hostname, extracted_hostname \o <<"\n">> >>

\* The three attempts of normalize_rule, given what each re.search returned:
\* the first pattern that matched decides
FirstMatch(result1, result2, result3, target_ip, keep_domain_comments) ==
    IF result1.ok
    THEN normalize_response(Lower(Strip(result1.key)), result1.suffix,
                            target_ip, keep_domain_comments)
    ELSE IF result2.ok
    THEN normalize_response(Strip(result2.key), result2.suffix,
                            target_ip, keep_domain_comments)
    ELSE IF result3.ok
    THEN normalize_response(Lower(Strip(result3.key)), result3.suffix,
                            target_ip, keep_domain_comments)
    ELSE <<None, None>>

\* normalize_rule trying the address+address pattern before address+hostname
normalize_rule_pair_first(rule, target_ip, keep_domain_comments) ==
    IF Regex2(rule).ok
    THEN normalize_response(Strip(Regex2(rule).key), Regex2(rule).suffix,
                            target_ip, keep_domain_comments)
    ELSE FirstMatch(Regex1(rule), Regex2(rule), Regex3(rule),
                    target_ip, keep_domain_comments)

\* The pair (hostname, normalized rule) returned by normalize_rule
normalize_rule(rule, target_ip, keep_domain_comments) ==
    FirstMatch(Regex1(rule), Regex2(rule), Regex3(rule),
               target_ip, keep_domain_comments)

\* What one call of normalize_rule prints: the lines written to stdout
normalize_rule_print(rule) ==
    IF Regex1(rule).ok \/ Regex2(rule).ok \/ Regex3(rule).ok
    THEN <<>>
    ELSE << <<"=", "=", ">">> \o rule \o <<"<", "=", "=">> >>

\* ------------------------------------------------------------------------
\* strip_rule (src/helpers.py 579-597)
\* ------------------------------------------------------------------------

strip_rule(line, remove_comments) ==
    IF remove_comments THEN Strip(SliceTo(line, Find(line, "#"))) ELSE line

\* ------------------------------------------------------------------------
\* matches_exclusions (src/helpers.py 600-630)
\* ------------------------------------------------------------------------

\* load_exclusion_regexes (src/helpers.py 420-448) compiles
\* exclusion_pattern + domain with no re.escape, so the characters of the
\* domain keep the meaning re gives them.  The domain part is read here as
\* a sequence of items, each one atom with at most one quantifier:
\*   atom        a character that is no metacharacter (itself), "." (any
\*               character but a newline), or a backslash and a
\*               metacharacter (that character)
\*   quantifier  "*", "+" or "?"
\* A domain outside this syntax (a group, a class, an alternation, an
\* anchor, a counted, lazy or possessive repeat, an escape of a letter or a
\* digit) is outside the model.

\* The characters of a pattern that do not stand for themselves
RegexMeta == {".", "^", "$", "*", "+", "?", "{", "[", "\\", "|", "(", ")"}

RegexQuantifiers == {"*", "+", "?"}

\* Whether p from position k on is a sequence of items
RECURSIVE IsItems(_, _)
IsItems(p, k) ==
    IF k > Len(p) THEN TRUE
    ELSE LET esc == p[k] = "\\"
             n == IF esc THEN k + 2 ELSE k + 1
             atom_ok == IF esc THEN k + 1 <= Len(p) /\ p[k + 1] \in RegexMeta
                        ELSE p[k] = "." \/ p[k] \notin RegexMeta
         IN  /\ atom_ok
             /\ IsItems(p, IF n <= Len(p) /\ p[n] \in RegexQuantifiers
                           THEN n + 1 ELSE n)

\* Whether the items of p from position k on match s from position i on
\* (up to any position): the backtracking of re, of which search() only
\* reports whether some way through succeeds
RECURSIVE ItemsMatchAt(_, _, _, _)
ItemsMatchAt(p, k, s, i) ==
    IF k > Len(p) THEN TRUE
    ELSE LET esc == p[k] = "\\"
             n == IF esc THEN k + 2 ELSE k + 1
             q == IF n <= Len(p) /\ p[n] \in RegexQuantifiers THEN p[n] ELSE ""
             rest == IF q = "" THEN n ELSE n + 1
             takes == /\ i <= Len(s)
                      /\ IF esc THEN s[i] = p[k + 1]
                         ELSE IF p[k] = "." THEN IsDot(s[i])
                         ELSE s[i] = p[k]
         IN  CASE q = ""  -> takes /\ ItemsMatchAt(p, rest, s, i + 1)
               [] q = "?" -> \/ takes /\ ItemsMatchAt(p, rest, s, i + 1)
                             \/ ItemsMatchAt(p, rest, s, i)
               [] q = "*" -> \/ takes /\ ItemsMatchAt(p, k, s, i + 1)
                             \/ ItemsMatchAt(p, rest, s, i)
               [] q = "+" -> /\ takes
                             /\ \/ ItemsMatchAt(p, k, s, i + 1)
                                \/ ItemsMatchAt(p, rest, s, i + 1)

\* The value of a search the model does not compute; it is no Boolean, so
\* nothing can be concluded from it
UNMODELLED_PATTERN == <<"unmodelled pattern">>

\* regex.search(s) for a regex compiled by load_exclusion_regexes from
\* exclusion_pattern + domain.  The pattern ([a-zA-Z\d-]+\.){0,} may match
\* the empty string and the domain part starts with an atom, so the search
\* succeeds exactly when the domain part matches from some position of s.
ExclusionRegexSearch(domain, s) ==
    IF IsItems(domain, 1)
    THEN \E i \in 1..(Len(s) + 1) : ItemsMatchAt(domain, 1, s, i)
    ELSE UNMODELLED_PATTERN

matches_exclusions(stripped_rule, exclusion_regexes) ==
    LET stripped_domain == IF Len(Split(stripped_rule)) >= 2
                           THEN Split(stripped_rule)[2]
                           ELSE stripped_rule
    IN  \E n \in 1..Len(exclusion_regexes) :
            ExclusionRegexSearch(exclusion_regexes[n], stripped_domain)

\* ------------------------------------------------------------------------
\* write_final_file (src/helpers.py 502-576): helpers of the loop body
\* ------------------------------------------------------------------------

\* s.replace(old, new): the non-overlapping occurrences of old, left to right
RECURSIVE Replace(_, _, _)
Replace(s, old, new) ==
    IF Len(s) < Len(old) THEN s
    ELSE IF SubSeq(s, 1, Len(old)) = old
         THEN new \o Replace(SubSeq(s, Len(old) + 1, Len(s)), old, new)
         ELSE <<s[1]>> \o Replace(SubSeq(s, 2, Len(s)), old, new)

\* The line after line.replace("\t+", " ") and line.rstrip(" ."): the first
\* argument of replace is the two-character text tab, plus (str.replace
\* takes no regular expression).
TidyLine(raw) == RStrip(Replace(raw, <<"\t", "+">>, <<" ">>), {" ", "."})

\* line[0] == "#" or re.match(r"^\s*$", line[0]), for a non-empty line: the
\* pattern is applied to the first character alone
FirstCharTest(line) == line[1] = "#" \/ IsSpace(line[1])

\* re.search(r"(^|[\s\.])" + re.escape(exclude) + r"\s", line)
ExcludeSearch(exclude, line) ==
    \E i \in 1..Len(line) :
        /\ i = 1 \/ IsSpace(line[i - 1]) \/ line[i - 1] = "."
        /\ i + Len(exclude) <= Len(line)
        /\ SubSeq(line, i, i + Len(exclude) - 1) = exclude
        /\ IsSpace(line[i + Len(exclude)])

\* The for loop over settings["exclusions"]: write_line after the loop
WriteLine(line, exclusions) ==
    ~ \E n \in 1..Len(exclusions) : ExcludeSearch(exclusions[n], line)

\* The set literal the seen-hostname set starts from
ReservedHostnames == {
    <<"l", "o", "c", "a", "l", "h", "o", "s", "t">>,
    <<"l", "o", "c", "a", "l", "h", "o", "s", "t", ".",
      "l", "o", "c", "a", "l", "d", "o", "m", "a", "i", "n">>,
    <<"l", "o", "c", "a", "l">>,
    <<"b", "r", "o", "a", "d", "c", "a", "s", "t", "h", "o", "s", "t">> }

\* ------------------------------------------------------------------------
\* State
\* ------------------------------------------------------------------------

VARIABLES
    settings,         \* the settings dict handed to write_final_file
    temp_file,        \* the staging stream, as temp_file.readlines() returns it
    temp_file_closed, \* whether temp_file.close() has been called on the stream
    idx,              \* number of staging lines the for loop has handled
    final_file,       \* the output file, as the pieces it is made of in file
                      \* order: the data of each write_data(final_file, ...)
                      \* call of write_final_file and, in front of them, the
                      \* header once write_opening_header has written it
    written_from,     \* for each piece, the index in temp_file of the line
                      \* whose handling wrote it; 0 for the header
    hostnames,        \* the local set hostnames
    number_of_rules,  \* the local counter number_of_rules
    stdout,           \* the lines printed so far
    pc,               \* position of the running operation
    call,             \* arguments of a direct call of a function
    ret,              \* what that call returned
    bodies,           \* what each write_final_file call wrote, call by call
    sources,          \* per source: file_size of its info.json, its cached hosts file
    remote,           \* per source: what the server at its url answers
    http_log,         \* the requests made so far, in order
    src_pos           \* number of sources update_all_sources has handled

\* What update_all_sources reads and writes
update_vars == <<sources, remote, http_log, src_pos>>

vars == <<settings, temp_file, temp_file_closed, idx, final_file, written_from, hostnames,
          number_of_rules, stdout, pc, call, ret, bodies, update_vars>>

\* No source directory is involved
NoSources ==
    /\ sources = <<>>
    /\ remote = <<>>
    /\ http_log = <<>>
    /\ src_pos = 0

\* ------------------------------------------------------------------------
\* Inputs
\* ------------------------------------------------------------------------

\* Longest staging stream, in lines
MaxLines == 2

SP == <<" ">>
TAB == <<"\t">>
NL == <<"\n">>
IP_ZERO == <<"0", ".", "0", ".", "0", ".", "0">>
IP_A == <<"1", ".", "2", ".", "3", ".", "4">>
IP_B == <<"5", ".", "6", ".", "7", ".", "8">>
LOOPBACK6 == <<":", ":", "1">>
HOST_AB == <<"a", ".", "b">>
HOST_AB_UPPER == <<"A", ".", "b">>
HOST_SUB == <<"x", ".", "a", ".", "b">>
HOST_LONG == <<"a", ".", "b", "c">>
HOST_CD == <<"c", ".", "d">>
LOCALHOST == <<"l", "o", "c", "a", "l", "h", "o", "s", "t">>

\* The staging lines the streams are built from.  Every one ends with a
\* newline but the last two, which stand for a final line of a file that
\* does not end with a newline.
StagingLines == {
    IP_ZERO \o SP \o HOST_AB \o NL,                          \* a rule
    IP_A \o SP \o HOST_AB_UPPER \o NL,                       \* same host, other case and address
    SP \o IP_ZERO \o SP \o HOST_AB \o NL,                    \* an indented rule
    IP_ZERO \o SP \o LOCALHOST \o NL,                        \* a reserved name
    <<"#", "c">> \o NL,                                      \* a comment
    <<"#">> \o LOOPBACK6 \o NL,                              \* a comment naming ::1
    NL,                                                      \* a blank line
    IP_ZERO \o SP \o HOST_CD \o <<" ", "#">> \o LOOPBACK6 \o NL, \* a rule with ::1 in its comment
    SP \o LOOPBACK6 \o SP \o LOCALHOST \o NL,                \* an indented IPv6 loopback rule
    IP_ZERO \o SP \o HOST_AB \o <<" ", "c">> \o NL,          \* a rule with trailing text
    IP_ZERO \o SP \o HOST_CD \o <<" ", "#", "c">> \o NL,     \* a rule with an inline comment
    IP_ZERO \o SP \o HOST_SUB \o NL,                         \* a subdomain of a.b
    IP_ZERO \o SP \o HOST_LONG \o NL,                        \* a.b as the start of a longer token
    IP_ZERO \o SP \o <<"a", "b", "@", "c">> \o NL,           \* a rule with @
    IP_ZERO \o SP \o IP_B \o NL,                             \* an address for an address
    <<"0", ".", "0", ".", "0">> \o NL,                       \* not parseable
    IP_ZERO \o TAB \o HOST_AB \o <<".">> \o NL,              \* a tab and a trailing period
    HOST_AB \o NL,                                           \* a bare hostname
    IP_ZERO \o SP \o HOST_AB,                                \* a rule without a newline
    <<" ", ".">>                                             \* spaces and periods without a newline
}

\* readlines() splits after each newline: only the last line of a stream
\* can lack one, and no line is empty
IsReadlines(stream) ==
    \A i \in 1..Len(stream) :
        /\ stream[i] # <<>>
        /\ \A k \in 1..(Len(stream[i]) - 1) : stream[i][k] # "\n"
        /\ i < Len(stream) => stream[i][Len(stream[i])] = "\n"

Streams ==
    {st \in UNION {[1..n -> StagingLines] : n \in 0..MaxLines} : IsReadlines(st)}

\* settings["exclusions"] as load_white_list leaves it, and the domains
\* load_exclusion_regexes compiled settings["exclusion_regexes"] from
ExclusionLists == {<<>>, <<HOST_AB>>}

SettingsSet ==
    [number_of_rules : {0},
     minimise : BOOLEAN,
     target_ip : {IP_ZERO},
     empty_target_ip : BOOLEAN,
     exclusions : ExclusionLists,
     exclusion_regexes : ExclusionLists]

\* ------------------------------------------------------------------------
\* write_final_file, one iteration of its for loop per step
\* ------------------------------------------------------------------------

Init ==
    /\ settings \in SettingsSet
    /\ temp_file \in Streams
    /\ temp_file_closed = FALSE
    /\ idx = 0
    /\ final_file = <<>>
    /\ written_from = <<>>
    /\ hostnames = ReservedHostnames
    /\ number_of_rules = settings.number_of_rules
    /\ stdout = <<>>
    /\ pc = "write_final_file"
    /\ call = <<>>
    /\ ret = <<>>
    /\ bodies = <<>>
    /\ NoSources

\* line[0] of an empty line raises IndexError: the call ends there, with
\* settings["number_of_rules"] not stored
write_final_file_IndexError ==
    /\ pc = "write_final_file"
    /\ idx < Len(temp_file)
    /\ ~settings.minimise
    /\ TidyLine(temp_file[idx + 1]) = <<>>
    /\ pc' = "IndexError"
    /\ UNCHANGED <<settings, temp_file, temp_file_closed, idx, final_file, written_from,
                   hostnames, number_of_rules, stdout, call, ret,
                   bodies, update_vars>>

\* What one iteration of the for loop does is told by a record: whether it
\* writes (write) and what (data), whether that is a normalized rule (rule)
\* with which hostname, and what it prints.  Skip is an iteration that ends
\* by continue or falls through the final if.
Skip == [write |-> FALSE, rule |-> FALSE, data |-> <<>>,
         hostname |-> None, printed |-> <<>>]

\* target_ip = "" if settings["empty_target_ip"] else settings["target_ip"]
TargetIp(st) == IF st.empty_target_ip THEN <<>> ELSE st.target_ip

\* Lines 570-573: the final if, given what normalize_rule returned and
\* printed and what the exclusions loop left in write_line
KeepRule_marks_vetoed(normalized, printed, write_line, seen) ==
    IF normalized[2] # None /\ normalized[1] \notin seen
    THEN [write |-> write_line, rule |-> TRUE, data |-> normalized[2],
          hostname |-> normalized[1], printed |-> printed]
    ELSE [Skip EXCEPT !.printed = printed]

\* Lines 570-573: the rule is written, its key added and counted, or nothing
KeepRule(normalized, printed, write_line, seen) ==
    IF normalized[2] # None /\ normalized[1] \notin seen /\ write_line
    THEN [write |-> TRUE, rule |-> TRUE, data |-> normalized[2],
          hostname |-> normalized[1], printed |-> printed]
    ELSE [Skip EXCEPT !.printed = printed]

\* A variant that always asks normalize_rule to keep the suffix
RuleBody_keeps_suffix(line, stripped_rule, st, seen) ==
    IF stripped_rule = <<>>
       \/ matches_exclusions(stripped_rule, st.exclusion_regexes)
    THEN Skip
    ELSE IF Contains(stripped_rule, <<"@">>)
    THEN Skip
    ELSE KeepRule(normalize_rule(stripped_rule, TargetIp(st), TRUE),
                  normalize_rule_print(stripped_rule),
                  WriteLine(line, st.exclusions), seen)

\* Lines 555-573: from the test of the stripped rule on
RuleBody(line, stripped_rule, st, seen) ==
    IF stripped_rule = <<>>
       \/ matches_exclusions(stripped_rule, st.exclusion_regexes)
    THEN Skip
    ELSE IF Contains(stripped_rule, <<"@">>)
    THEN Skip
    ELSE KeepRule(normalize_rule(stripped_rule, TargetIp(st), st.minimise),
                  normalize_rule_print(stripped_rule),
                  WriteLine(line, st.exclusions), seen)

\* Lines 546-573: from the first-character test on, for a line on which
\* line[0] does not raise
LineBody(line, st, seen) ==
    IF ~st.minimise /\ FirstCharTest(line)
    THEN [Skip EXCEPT !.write = TRUE, !.data = line]
    ELSE IF Contains(line, LOOPBACK6)
    THEN Skip
    ELSE RuleBody(line, strip_rule(line, st.minimise), st, seen)

\* The body of the for loop for the staging line raw, given the settings and
\* the set hostnames it finds
LoopBody(raw, st, seen) == LineBody(TidyLine(raw), st, seen)

\* The writes and updates of one iteration
LoopEffect(body) ==
    /\ final_file' = IF body.write THEN Append(final_file, body.data)
                     ELSE final_file
    /\ written_from' = IF body.write THEN Append(written_from, idx + 1)
                       ELSE written_from
    /\ hostnames' = IF body.rule THEN hostnames \cup {body.hostname}
                    ELSE hostnames
    /\ number_of_rules' = IF body.rule THEN number_of_rules + 1
                          ELSE number_of_rules
    /\ stdout' = stdout \o body.printed

\* One iteration of the for loop
write_final_file_line ==
    /\ pc = "write_final_file"
    /\ idx < Len(temp_file)
    /\ settings.minimise \/ TidyLine(temp_file[idx + 1]) # <<>>
    /\ LoopEffect(LoopBody(temp_file[idx + 1], settings, hostnames))
    /\ idx' = idx + 1
    /\ UNCHANGED <<settings, temp_file, temp_file_closed, pc, call, ret,
                   bodies, update_vars>>

\* A variant that also resets the exclusion word list
write_final_file_end_clears ==
    /\ pc = "write_final_file"
    /\ idx = Len(temp_file)
    /\ settings' = [settings EXCEPT !.number_of_rules = number_of_rules,
                                    !.exclusions = <<>>]
    /\ temp_file_closed' = TRUE
    /\ bodies' = Append(bodies, final_file)
    /\ pc' = "done"
    /\ UNCHANGED <<temp_file, idx, final_file, written_from, hostnames,
                   number_of_rules, stdout, call, ret, update_vars>>

\* After the loop (lines 575-576): settings["number_of_rules"] =
\* number_of_rules, then temp_file.close().  temp_file keeps the lines the
\* stream held; the stream is closed from here on (main hands a
\* NamedTemporaryFile, which is also deleted by the close).  What the call
\* wrote is kept in bodies.
write_final_file_end ==
    /\ pc = "write_final_file"
    /\ idx = Len(temp_file)
    /\ settings' = [settings EXCEPT !.number_of_rules = number_of_rules]
    /\ temp_file_closed' = TRUE
    /\ bodies' = Append(bodies, final_file)
    /\ pc' = "done"
    /\ UNCHANGED <<temp_file, idx, final_file, written_from, hostnames,
                   number_of_rules, stdout, call, ret, update_vars>>

\* write_final_file called again with the arguments of the first call: the
\* stream is closed, so temp_file.seek(0) at line 531 raises ValueError
\* before a line is read or written.  The locals of the call (lines
\* 519-528) go with the exception; the call wrote nothing.
write_final_file_ValueError ==
    /\ pc = "done"
    /\ Len(bodies) = 1
    /\ temp_file_closed
    /\ bodies' = Append(bodies, <<>>)
    /\ pc' = "ValueError"
    /\ UNCHANGED <<settings, temp_file, temp_file_closed, idx, final_file,
                   written_from, hostnames, number_of_rules, stdout, call,
                   ret, update_vars>>

\* str(n)
RECURSIVE Decimal(_)
Decimal(n) ==
    IF n < 10 THEN <<DigitSeq[n + 1]>>
    ELSE Decimal(n \div 10) \o <<DigitSeq[(n % 10) + 1]>>

\* "{:,}".format(n)
RECURSIVE FormatCount(_)
FormatCount(n) ==
    IF n < 1000 THEN Decimal(n)
    ELSE FormatCount(n \div 1000) \o <<",">>
         \o <<DigitSeq[((n \div 100) % 10) + 1], DigitSeq[((n \div 10) % 10) + 1],
              DigitSeq[(n % 10) + 1]>>

COUNT_LABEL == <<"#", " ", "N", "u", "m", "b", "e", "r", " ", "o", "f", " ",
                 "u", "n", "i", "q", "u", "e", " ", "d", "o", "m", "a", "i",
                 "n", "s", ":", " ">>

\* ------------------------------------------------------------------------
\* write_opening_header (src/helpers.py 731-817): the data it writes
\* ------------------------------------------------------------------------

\* Lines 749-758: the writes before the date
BANNER_TOP ==
    <<"#", " ", "T", "i", "t", "l", "e", ":", " ", "h", "r", "s", "h", "a",
      "d", "h", "i", "n", "/", "h", "o", "s", "t", "s", "\n", "#", "\n", "#",
      " ", "T", "h", "i", "s", " ", "h", "o", "s", "t", "s", " ", "f", "i",
      "l", "e", " ", "i", "s", " ", "a", " ", "m", "e", "r", "g", "e", "d",
      " ", "c", "o", "l", "l", "e", "c", "t", "i", "o", "n", " ", "o", "f",
      " ", "h", "o", "s", "t", "s", " ", "f", "r", "o", "m", " ", "r", "e",
      "p", "u", "t", "a", "b", "l", "e", " ", "s", "o", "u", "r", "c", "e",
      "s", ",", "\n", "#", " ", "w", "i", "t", "h", " ", "a", " ", "d", "a",
      "s", "h", " ", "o", "f", " ", "c", "r", "o", "w", "d", " ", "s", "o",
      "u", "r", "c", "i", "n", "g", " ", "v", "i", "a", " ", "G", "i", "t",
      "H", "u", "b", "\n", "#", "\n", "#", " ", "D", "a", "t", "e", ":", " ">>

\* Lines 772-776: the text before file_path
FETCH_LABEL ==
    <<"#", " ", "F", "e", "t", "c", "h", " ", "t", "h", "e", " ", "l", "a",
      "t", "e", "s", "t", " ", "v", "e", "r", "s", "i", "o", "n", " ", "o",
      "f", " ", "t", "h", "i", "s", " ", "f", "i", "l", "e", ":", " ", "h",
      "t", "t", "p", "s", ":", "/", "/", "r", "a", "w", ".", "g", "i", "t",
      "h", "u", "b", "u", "s", "e", "r", "c", "o", "n", "t", "e", "n", "t",
      ".", "c", "o", "m", "/", "h", "r", "s", "h", "a", "d", "h", "i", "n",
      "/", "h", "o", "s", "t", "s", "/", "m", "a", "s", "t", "e", "r", "/">>

\* Lines 778-787: the project lines, the rule and the blank line
BANNER_END ==
    <<"#", " ", "P", "r", "o", "j", "e", "c", "t", " ", "h", "o", "m", "e",
      " ", "p", "a", "g", "e", ":", " ", "h", "t", "t", "p", "s", ":", "/",
      "/", "g", "i", "t", "h", "u", "b", ".", "c", "o", "m", "/", "h", "r",
      "s", "h", "a", "d", "h", "i", "n", "/", "h", "o", "s", "t", "s", "\n",
      "#", " ", "P", "r", "o", "j", "e", "c", "t", " ", "r", "e", "l", "e",
      "a", "s", "e", "s", ":", " ", "h", "t", "t", "p", "s", ":", "/", "/",
      "g", "i", "t", "h", "u", "b", ".", "c", "o", "m", "/", "h", "r", "s",
      "h", "a", "d", "h", "i", "n", "/", "h", "o", "s", "t", "s", "/", "r",
      "e", "l", "e", "a", "s", "e", "s", "\n", "#", " ", "=", "=", "=", "=",
      "=", "=", "=", "=", "=", "=", "=", "=", "=", "=", "=", "=", "=", "=",
      "=", "=", "=", "=", "=", "=", "=", "=", "=", "=", "=", "=", "=", "=",
      "=", "=", "=", "=", "=", "=", "=", "=", "=", "=", "=", "=", "=", "=",
      "=", "=", "=", "=", "=", "=", "=", "=", "=", "=", "=", "=", "=", "=",
      "=", "=", "=", "\n", "\n">>

\* Lines 790-803: the static entries
STATIC_HOSTS ==
    <<"1", "2", "7", ".", "0", ".", "0", ".", "1", " ", "l", "o", "c", "a",
      "l", "h", "o", "s", "t", "\n", "1", "2", "7", ".", "0", ".", "0", ".",
      "1", " ", "l", "o", "c", "a", "l", "h", "o", "s", "t", ".", "l", "o",
      "c", "a", "l", "d", "o", "m", "a", "i", "n", "\n", "1", "2", "7", ".",
      "0", ".", "0", ".", "1", " ", "l", "o", "c", "a", "l", "\n", "2", "5",
      "5", ".", "2", "5", "5", ".", "2", "5", "5", ".", "2", "5", "5", " ",
      "b", "r", "o", "a", "d", "c", "a", "s", "t", "h", "o", "s", "t", "\n",
      ":", ":", "1", " ", "l", "o", "c", "a", "l", "h", "o", "s", "t", "\n",
      ":", ":", "1", " ", "i", "p", "6", "-", "l", "o", "c", "a", "l", "h",
      "o", "s", "t", "\n", ":", ":", "1", " ", "i", "p", "6", "-", "l", "o",
      "o", "p", "b", "a", "c", "k", "\n", "f", "e", "8", "0", ":", ":", "1",
      "%", "l", "o", "0", " ", "l", "o", "c", "a", "l", "h", "o", "s", "t",
      "\n", "f", "f", "0", "0", ":", ":", "0", " ", "i", "p", "6", "-", "l",
      "o", "c", "a", "l", "n", "e", "t", "\n", "f", "f", "0", "0", ":", ":",
      "0", " ", "i", "p", "6", "-", "m", "c", "a", "s", "t", "p", "r", "e",
      "f", "i", "x", "\n", "f", "f", "0", "2", ":", ":", "1", " ", "i", "p",
      "6", "-", "a", "l", "l", "n", "o", "d", "e", "s", "\n", "f", "f", "0",
      "2", ":", ":", "2", " ", "i", "p", "6", "-", "a", "l", "l", "r", "o",
      "u", "t", "e", "r", "s", "\n", "f", "f", "0", "2", ":", ":", "3", " ",
      "i", "p", "6", "-", "a", "l", "l", "h", "o", "s", "t", "s", "\n", "0",
      ".", "0", ".", "0", ".", "0", " ", "0", ".", "0", ".", "0", ".", "0",
      "\n">>

\* Lines 805-807: the two entries of the local host name, on Linux only
LinuxHosts(system, hostname) ==
    IF system = "Linux"
    THEN <<"1", "2", "7", ".", "0", ".", "1", ".", "1", " ">> \o hostname \o NL
         \o <<"1", "2", "7", ".", "0", ".", "0", ".", "5", "3", " ">>
         \o hostname \o NL
    ELSE <<>>

\* Lines 767-770: file_path
FilePath(st) ==
    LET dir == IF "output_directory" \in DOMAIN st
               THEN Replace(st.output_directory, <<"\\">>, <<"/">>) ELSE <<>>
    IN  (IF Len(dir) > 0 THEN dir \o <<"/">> ELSE <<>>) \o st.output_file \o NL

\* Lines 809-816: the preamble, when empty_target_ip is false and
\* settings.get("custom_host_file", "") names a file
Preamble(st, files) ==
    IF ~st.empty_target_ip /\ "custom_host_file" \in DOMAIN st
       /\ st.custom_host_file \in DOMAIN files
    THEN files[st.custom_host_file] \o NL
    ELSE <<>>

\* Lines 790-809: the static block
StaticBlock(st, env) ==
    IF ~st.skip_static_hosts
    THEN STATIC_HOSTS \o LinuxHosts(env.system, env.hostname) \o NL
    ELSE <<>>

\* A variant that reads skip_static_hosts with a default, as
\* settings.get("skip_static_hosts", True) would
HeaderData_default_skip(st, env) ==
    LET w1 == BANNER_TOP \o env.date \o NL
        w2 == w1 \o COUNT_LABEL \o FormatCount(st.number_of_rules)
                 \o <<"\n", "#", "\n">>
        w3 == w2 \o FETCH_LABEL \o FilePath(st) \o BANNER_END
        w4 == w3 \o (IF "skip_static_hosts" \in DOMAIN st
                     THEN StaticBlock(st, env) ELSE <<>>)
    IN  IF "number_of_rules" \notin DOMAIN st THEN [data |-> w1, raised |-> TRUE]
        ELSE IF "output_file" \notin DOMAIN st THEN [data |-> w2, raised |-> TRUE]
        ELSE IF "empty_target_ip" \notin DOMAIN st THEN [data |-> w4, raised |-> TRUE]
        ELSE [data |-> w4 \o Preamble(st, env.files), raised |-> FALSE]

\* Lines 749-816: the data of the write_data calls, one after the other,
\* up to the first settings[...] of a missing key, which raises KeyError
HeaderData(st, env) ==
    LET w1 == BANNER_TOP \o env.date \o NL
        w2 == w1 \o COUNT_LABEL \o FormatCount(st.number_of_rules)
                 \o <<"\n", "#", "\n">>
        w3 == w2 \o FETCH_LABEL \o FilePath(st) \o BANNER_END
        w4 == w3 \o StaticBlock(st, env)
    IN  IF "number_of_rules" \notin DOMAIN st THEN [data |-> w1, raised |-> TRUE]
        ELSE IF "output_file" \notin DOMAIN st THEN [data |-> w2, raised |-> TRUE]
        ELSE IF "skip_static_hosts" \notin DOMAIN st THEN [data |-> w3, raised |-> TRUE]
        ELSE IF "empty_target_ip" \notin DOMAIN st THEN [data |-> w4, raised |-> TRUE]
        ELSE [data |-> w4 \o Preamble(st, env.files), raised |-> FALSE]

\* Writing data at the start of a file: the bytes it covers are replaced
\* and the file grows when the data is longer
WriteAtStart(file, data) == data \o SubSeq(file, Len(data) + 1, Len(file))

\* ------------------------------------------------------------------------
\* main (src/update_hosts_file.py 37-60): the call of write_opening_header
\* that follows write_final_file
\* ------------------------------------------------------------------------

\* get_defaults()["custom_host_file"], the file name under BASEDIR_PATH
CUSTOM_HOST_FILE == <<"c", "u", "s", "t", "o", "m", "_", "h", "o", "s", "t", "s">>

\* The entries of main's settings dict that write_opening_header reads:
\* number_of_rules and empty_target_ip as the dict st of write_final_file
\* holds them, the rest as get_defaults() and the defaults of parse_args
\* give them (output_file "" becomes host_file_name at lines 46-47)
MainSettings(st) ==
    [number_of_rules |-> st.number_of_rules,
     empty_target_ip |-> st.empty_target_ip,
     skip_static_hosts |-> FALSE,
     output_directory |-> <<>>,
     output_file |-> <<"h", "o", "s", "t", "s">>,
     custom_host_file |-> CUSTOM_HOST_FILE]

\* What the call reads from outside the program: platform.system(),
\* socket.gethostname(), the clock, and the custom preamble file, which
\* exists or not
MainEnvs ==
    [system : {"Linux", "Windows"},
     hostname : {<<"p", "c">>},
     date : {<<"3", "0", " ", "O", "c", "t", "o", "b", "e", "r", " ", "2", "0",
              "2", "6", " ", "0", "3", ":", "0", "0", ":", "0", "0", " ",
              "(", "G", "M", "T", ")">>},
     files : {<<>>, [p \in {CUSTOM_HOST_FILE} |->
                        <<"1", ".", "1", ".", "1", ".", "1", " ", "x", ".", "y">>]}]

\* main, line 60: write_opening_header on the file write_final_file has just
\* filled (line 59; main calls it once).  The call saves the contents of
\* the file, writes the header from offset 0 and the saved contents after
\* it (line 817), and returns None.  The file is then the header followed by
\* the body: the header is one piece in front of the pieces of the body,
\* whose bytes line 817 writes back as they were.  call holds what the
\* call read from outside the program.
write_opening_header ==
    /\ pc = "done"
    /\ Len(bodies) = 1
    /\ \E env \in MainEnvs :
          /\ call' = env
          /\ final_file' = <<HeaderData(MainSettings(settings), env).data>>
                           \o final_file
    /\ written_from' = <<0>> \o written_from
    /\ ret' = None
    /\ pc' = "header"
    /\ UNCHANGED <<settings, temp_file, temp_file_closed, idx, hostnames, number_of_rules,
                   stdout, bodies, update_vars>>

Next ==
    \/ write_final_file_IndexError
    \/ write_final_file_line
    \/ write_final_file_end
    \/ write_final_file_ValueError
    \/ write_opening_header

Spec == Init /\ [][Next]_vars

\* ------------------------------------------------------------------------
\* normalize_rule called directly, as the unit tests call it
\* ------------------------------------------------------------------------

\* Longest run of spaces between the address and the host of a rule
MaxPad == 2

Spaces(n) == [i \in 1..n |-> " "]

\* A rule is lead \o addr \o sep \o host \o suffix.
RuleLeads == {<<>>, SP}

\* no address, an IPv4-shaped address, 3 dotted groups, 5 dotted groups
RuleAddrs == {<<>>, IP_A, <<"0", ".", "0", ".", "0">>,
              <<"0", ".", "1", ".", "2", ".", "3", ".", "4">>}

RuleSeps == {Spaces(n) : n \in 1..MaxPad} \cup {TAB, <<VT>>}

\* Hostnames the patterns take whole: two characters or more of [\w\.-],
\* the last one a letter
ValidHosts == {HOST_AB, HOST_AB_UPPER, IP_B \o <<"a">>}

\* no host, the hostnames, a single letter, an address, a token with a slash
RuleHosts == ValidHosts \cup {<<>>, <<"a">>, IP_B, <<"f", "/", "b">>}

RuleSuffixes == {<<>>, <<" ", "c">>, <<" ", "#", "c">>, <<"#", "c">>, <<".">>, NL,
                 <<" ", "c", "\n">>}

Calls ==
    {c \in [lead : RuleLeads, addr : RuleAddrs, sep : RuleSeps \cup {<<>>},
            host : RuleHosts, suffix : RuleSuffixes,
            target_ip : {<<>>, IP_ZERO}, keep_domain_comments : BOOLEAN] :
        /\ c.sep # <<>> <=> (c.addr # <<>> /\ c.host # <<>>)
        /\ c.host = <<>> => c.suffix \in {<<>>, NL}}

\* The rule argument of a call
RuleOf(c) == c.lead \o c.addr \o c.sep \o c.host \o c.suffix

\* get_defaults(), the entries write_final_file reads
DefaultSettings ==
    [number_of_rules |-> 0, minimise |-> FALSE, target_ip |-> IP_ZERO,
     empty_target_ip |-> FALSE, exclusions |-> <<>>, exclusion_regexes |-> <<>>]

InitNormalize ==
    /\ call \in Calls
    /\ ret = <<>>
    /\ stdout = <<>>
    /\ pc = "normalize_rule"
    /\ settings = DefaultSettings
    /\ temp_file = <<>>
    /\ temp_file_closed = FALSE
    /\ idx = 0
    /\ final_file = <<>>
    /\ written_from = <<>>
    /\ hostnames = {}
    /\ number_of_rules = 0
    /\ bodies = <<>>
    /\ NoSources

normalize_rule_call ==
    /\ pc = "normalize_rule"
    /\ ret' = normalize_rule(RuleOf(call), call.target_ip, call.keep_domain_comments)
    /\ stdout' = stdout \o normalize_rule_print(RuleOf(call))
    /\ pc' = "returned"
    /\ UNCHANGED <<settings, temp_file, temp_file_closed, idx, final_file, written_from,
                   hostnames, number_of_rules, call,
                   bodies, update_vars>>

NextNormalize == normalize_rule_call

SpecNormalize == InitNormalize /\ [][NextNormalize]_vars

\* ------------------------------------------------------------------------
\* Claims about normalize_rule, checked under SpecNormalize
\* ------------------------------------------------------------------------

\* What the three patterns accept, told from the parts the rule was built
\* from: [address] hostname, or address address.
Accepted(c) ==
    \/ c.host \in ValidHosts /\ c.addr \in {<<>>, IP_A}
    \/ c.host = IP_B /\ c.addr = IP_A

\* The key of an accepted rule: the hostname in lower case, or the second address
ExpectedKey(c) == IF c.host = HOST_AB_UPPER THEN HOST_AB ELSE c.host

\* The text after the key, up to the end of the line; the address pattern
\* also skips the whitespace before it
ExpectedSuffix(c) ==
    LET text == IF c.suffix # <<>> /\ c.suffix[Len(c.suffix)] = "\n"
                THEN SubSeq(c.suffix, 1, Len(c.suffix) - 1) ELSE c.suffix
    IN  IF c.host = IP_B /\ text # <<>> /\ text[1] = " " THEN Tail(text)
        ELSE text

\* Number of occurrences of the character ch in s
Count(s, ch) == Cardinality({i \in 1..Len(s) : s[i] = ch})

\* C3: for every accepted rule the output is built from target_ip, the key
\* and the suffix only.  With a non-empty target_ip it is target_ip, one
\* space, the key, an optional " #suffix" comment (none when comments are
\* not kept) and one newline, its first token is target_ip and the address
\* of the source rule is not in it; with an empty target_ip it is the key
\* and a newline, whatever keep_domain_comments is.
C3_OutputFromTargetKeySuffix ==
    (pc = "returned" /\ ret[2] # None) =>
        IF call.target_ip # <<>>
        THEN /\ \E tail \in {<<>>, <<" ", "#">> \o ExpectedSuffix(call)} :
                   /\ ret[2] = call.target_ip \o SP \o ExpectedKey(call) \o tail \o NL
                   /\ ~call.keep_domain_comments => tail = <<>>
             /\ Split(ret[2])[1] = call.target_ip
             /\ Count(ret[2], "\n") = 1
             /\ call.addr # <<>> => ~Contains(ret[2], call.addr)
        ELSE ret[2] = ExpectedKey(call) \o NL

\* C3 witness: an address-and-hostname rule with trailing text was
\* normalized with an empty target_ip and comments kept
C3_Witness ==
    /\ pc = "returned"
    /\ ret[2] # None
    /\ call.target_ip = <<>>
    /\ call.keep_domain_comments
    /\ call.addr = IP_A
    /\ call.suffix = <<" ", "c">>

\* C4: normalize_rule returns (None, None) and prints ==>rule<== exactly
\* when no pattern accepts the rule, which includes a lone address, 3
\* dotted groups before a token and 5 dotted groups before a token;
\* otherwise key and output are both set and nothing is printed.
C4_RejectedExactlyWhenNoPattern ==
    pc = "returned" =>
        /\ ret = <<None, None>> <=> ~Accepted(call)
        /\ ret = <<None, None>> =>
               stdout = << <<"=", "=", ">">> \o RuleOf(call) \o <<"<", "=", "=">> >>
        /\ ret # <<None, None>> =>
               ret[1] # None /\ ret[2] # None /\ stdout = <<>>

\* C4 witness: 5 dotted groups followed by a hostname were rejected
C4_Witness ==
    /\ pc = "returned"
    /\ ret = <<None, None>>
    /\ stdout # <<>>
    /\ call.addr = <<"0", ".", "1", ".", "2", ".", "3", ".", "4">>
    /\ call.host = HOST_AB

\* C5: the patterns are tried in the order address+hostname, address+address,
\* bare hostname and the first match decides: the key is the lower-cased
\* hostname for the hostname patterns (also for a hostname that starts like
\* an address) and the second address, never the first, for address+address,
\* whose output without comments is target_ip, space, second address, newline.
C5_FirstMatchDecidesKey ==
    (pc = "returned" /\ Accepted(call)) =>
        /\ ret[1] = ExpectedKey(call)
        /\ call.addr # <<>> => ret[1] # call.addr
        /\ (call.host = IP_B /\ ~call.keep_domain_comments /\ call.target_ip # <<>>) =>
               ret[2] = call.target_ip \o SP \o IP_B \o NL

\* C5 witness: "1.2.3.4 5.6.7.8 c" was normalized without comments
C5_Witness ==
    /\ pc = "returned"
    /\ call.addr = IP_A
    /\ call.host = IP_B
    /\ call.suffix = <<" ", "c">>
    /\ ~call.keep_domain_comments
    /\ call.target_ip = IP_ZERO
    /\ ret[1] = IP_B

\* C6: with a non-empty target_ip and comments kept, a non-empty suffix is
\* appended as one comment introduced by exactly one "#", also when the
\* suffix brings its own "#"; with comments not kept or an empty suffix
\* nothing follows the key.
C6_SuffixIntroducedByOneHash ==
    (pc = "returned" /\ ret[2] # None /\ call.target_ip # <<>>) =>
        IF call.keep_domain_comments /\ ExpectedSuffix(call) # <<>>
        THEN /\ Count(ret[2], "#") = 1
             /\ Len(ret[2]) > Len(call.target_ip \o SP \o ExpectedKey(call) \o NL)
        ELSE ret[2] = call.target_ip \o SP \o ExpectedKey(call) \o NL

\* ------------------------------------------------------------------------
\* Claims about write_final_file, checked under Spec
\* ------------------------------------------------------------------------

\* The hostname a line of the output body carries: the key the line parses
\* to as a hosts rule (None for a comment and for a blank line)
BodyKey(data) == normalize_rule(data, <<>>, FALSE)[1]

\* The pieces of the file that write_final_file wrote: the body
BodyPieces == {i \in 1..Len(final_file) : written_from[i] # 0}

\* The indices of the staging lines that were written
Written == {written_from[i] : i \in BodyPieces}

\* The line as the loop body sees it, and the key it normalizes to
LineOf(n) == TidyLine(temp_file[n])

LineKey(n) ==
    normalize_rule(strip_rule(LineOf(n), settings.minimise), <<>>, FALSE)[1]

\* The loop body would write line n if no line came before it
KeptAlone(n) == LoopBody(temp_file[n], settings, ReservedHostnames).write

\* A staging line that is neither blank nor a comment
IsRuleLine(raw) == Strip(raw) # <<>> /\ Strip(raw)[1] # "#"

\* C1: once the stream is processed, with minimise on or off, no two lines
\* of the body carry the same hostname and no body line carries one of the
\* four reserved names.
C1_BodyKeysUniqueNotReserved ==
    pc = "done" =>
        \A i \in 1..Len(final_file) :
            /\ BodyKey(final_file[i]) \notin ReservedHostnames
            /\ \A j \in (i + 1)..Len(final_file) :
                  BodyKey(final_file[i]) # None =>
                      BodyKey(final_file[i]) # BodyKey(final_file[j])

\* C2: the lines written are in the order of the staging lines they come
\* from, and a staging line is written exactly when it is not dropped for a
\* reason of its own and no earlier such line normalizes to the same key:
\* the first line of a key wins and every later one writes nothing.
C2_OrderAndFirstSeenWins ==
    /\ \A i \in BodyPieces : \A j \in BodyPieces :
          i < j => written_from[i] < written_from[j]
    /\ \A n \in 1..idx :
          n \in Written <=>
              /\ KeptAlone(n)
              /\ LineKey(n) # None =>
                    ~ \E m \in 1..(n - 1) : KeptAlone(m) /\ LineKey(m) = LineKey(n)

\* C7: no staging line that contains ::1 is written, whatever the settings
\* and whether the line is a rule or a comment.
C7_LoopbackNeverWritten ==
    \A n \in Written : ~Contains(temp_file[n], LOOPBACK6)

\* C8: for every exclusion word w, a rule line that has w as a whole
\* whitespace-delimited token is never written, and the word-list check
\* does not match a line that has w only inside a longer token.
C8_WordListWholeTokenOnly ==
    \A n \in 1..idx : \A k \in 1..Len(settings.exclusions) :
        LET w == settings.exclusions[k]
            tokens == {Split(temp_file[n])[t] : t \in 1..Len(Split(temp_file[n]))}
        IN  /\ (IsRuleLine(temp_file[n]) /\ w \in tokens) => n \notin Written
            /\ (Contains(temp_file[n], w) /\ w \notin tokens) =>
                   ~ExcludeSearch(w, LineOf(n))

\* C9: a rule is written only if neither the regex check on the stripped
\* rule nor the word-list check on the line matches.
C9_WrittenOnlyIfNeitherExclusionMatches ==
    \A n \in Written :
        IsRuleLine(temp_file[n]) =>
            /\ ~matches_exclusions(strip_rule(LineOf(n), settings.minimise),
                                   settings.exclusion_regexes)
            /\ WriteLine(LineOf(n), settings.exclusions)

\* C10: with minimise on, the body has no blank line, no comment line and
\* no "#" at all.
C10_MinimisedBodyHasNoComment ==
    settings.minimise =>
        \A i \in BodyPieces :
            /\ Strip(final_file[i]) # <<>>
            /\ ~Contains(final_file[i], <<"#">>)

\* The loop body copies line n to the output as it is, without normalizing it
CopiedVerbatim(n) ==
    /\ KeptAlone(n)
    /\ ~LoopBody(temp_file[n], settings, ReservedHostnames).rule
    /\ LoopBody(temp_file[n], settings, ReservedHostnames).data = LineOf(n)

\* C11: with minimise off, a staging line is copied to the output unchanged,
\* without the ::1, exclusion, normalization and dedup steps, exactly when it
\* is blank or a comment; every other line goes through those steps.
C11_VerbatimIffBlankOrComment ==
    ~settings.minimise =>
        \A n \in 1..idx : CopiedVerbatim(n) <=> ~IsRuleLine(temp_file[n])

\* ------------------------------------------------------------------------
\* strip_rule called directly, as the unit tests call it
\* ------------------------------------------------------------------------

\* A line is lead \o body \o comment \o end: the rule text, with spaces
\* before it, a comment after it and the end of the line
StripBodies == {<<>>, <<"a">>, HOST_AB, IP_ZERO \o SP \o HOST_AB}

StripComments == {<<>>, <<"#">>, <<"#", "c">>, <<" ", "#", "c">>,
                  <<"#", "c", "#", "d">>}

StripEnds == {<<>>, NL, SP \o NL, <<US>>}

StripCalls ==
    [lead : {Spaces(n) : n \in 0..MaxPad}, body : StripBodies,
     comment : StripComments, end : StripEnds, remove_comments : BOOLEAN]

\* The line argument of a call
LineOfCall(c) == c.lead \o c.body \o c.comment \o c.end

InitStripRule ==
    /\ call \in StripCalls
    /\ ret = <<>>
    /\ stdout = <<>>
    /\ pc = "strip_rule"
    /\ settings = DefaultSettings
    /\ temp_file = <<>>
    /\ temp_file_closed = FALSE
    /\ idx = 0
    /\ final_file = <<>>
    /\ written_from = <<>>
    /\ hostnames = {}
    /\ number_of_rules = 0
    /\ bodies = <<>>
    /\ NoSources

strip_rule_call ==
    /\ pc = "strip_rule"
    /\ ret' = strip_rule(LineOfCall(call), call.remove_comments)
    /\ pc' = "stripped"
    /\ UNCHANGED <<settings, temp_file, temp_file_closed, idx, final_file, written_from,
                   hostnames, number_of_rules, stdout, call,
                   bodies, update_vars>>

NextStripRule == strip_rule_call

SpecStripRule == InitStripRule /\ [][NextStripRule]_vars

NotSpace(c) == ~IsSpace(c)

\* C12: with comment stripping enabled strip_rule returns the text before
\* the first "#" (the whole line when it has none) with the surrounding
\* whitespace removed and nothing else lost, with or without a final
\* newline, and the result is empty only for a blank line or a comment;
\* with comment stripping disabled no non-whitespace character is lost.
C12_StripRuleKeepsRuleText ==
    pc = "stripped" =>
        IF call.remove_comments
        THEN /\ ret = call.body
             /\ ret = <<>> =>
                    \/ Strip(LineOfCall(call)) = <<>>
                    \/ Strip(LineOfCall(call))[1] = "#"
        ELSE SelectSeq(ret, NotSpace) = SelectSeq(LineOfCall(call), NotSpace)

\* ------------------------------------------------------------------------
\* str.encode("IDNA"), the codec domain_to_idna relies on
\* ------------------------------------------------------------------------

\* A character outside ASCII is written as the name of its code point
N_TILDE == "U+00F1"
N_TILDE_UPPER == "U+00D1"
SMALL_CAPITAL_G == "U+0262"

NonAscii == {N_TILDE, N_TILDE_UPPER, SMALL_CAPITAL_G}

IsAscii(s) == \A i \in 1..Len(s) : s[i] \notin NonAscii

\* ord(c) for the characters outside ASCII; every ASCII character counts
\* as a basic code point, below 128
CodePoint(c) ==
    IF c = N_TILDE THEN 241
    ELSE IF c = N_TILDE_UPPER THEN 209
    ELSE IF c = SMALL_CAPITAL_G THEN 610
    ELSE 0

\* What raises UnicodeError
UnicodeError == <<"UnicodeError">>

\* nameprep: case folding (the mapping table B.2); NFKC changes none of
\* the characters above
Nameprep(label) ==
    [i \in 1..Len(label) |->
        IF label[i] = N_TILDE_UPPER THEN N_TILDE ELSE LowerChar(label[i])]

\* punycode: the character of the digit d, a-z then 0-9
PunyDigit(d) == IF d < 26 THEN LowerCase[d + 1] ELSE DigitSeq[d - 25]

RECURSIVE AdaptLoop(_, _)
AdaptLoop(delta, k) ==
    IF delta > 455 THEN AdaptLoop(delta \div 35, k + 36)
    ELSE k + ((36 * delta) \div (delta + 38))

\* punycode: bias adaptation
Adapt(delta, numpoints, first) ==
    AdaptLoop((IF first THEN delta \div 700 ELSE delta \div 2)
              + ((IF first THEN delta \div 700 ELSE delta \div 2) \div numpoints), 0)

\* punycode: the threshold of the digit at position k
Threshold(k, bias) ==
    IF k <= bias THEN 1 ELSE IF k >= bias + 26 THEN 26 ELSE k - bias

\* punycode: q as a generalized variable-length integer
RECURSIVE VarInt(_, _, _)
VarInt(q, bias, k) ==
    IF q < Threshold(k, bias) THEN <<PunyDigit(q)>>
    ELSE <<PunyDigit(Threshold(k, bias)
                     + ((q - Threshold(k, bias)) % (36 - Threshold(k, bias))))>>
         \o VarInt((q - Threshold(k, bias)) \div (36 - Threshold(k, bias)),
                   bias, k + 36)

\* punycode: one pass over the label for the code point n; st holds delta,
\* bias, h (characters handled) and out (digits emitted)
RECURSIVE PunyPass(_, _, _, _, _)
PunyPass(label, i, n, b, st) ==
    IF i > Len(label) THEN st
    ELSE IF CodePoint(label[i]) < n
    THEN PunyPass(label, i + 1, n, b, [st EXCEPT !.delta = @ + 1])
    ELSE IF CodePoint(label[i]) = n
    THEN PunyPass(label, i + 1, n, b,
                  [delta |-> 0,
                   bias |-> Adapt(st.delta, st.h + 1, st.h = b),
                   h |-> st.h + 1,
                   out |-> st.out \o VarInt(st.delta, st.bias, 36)])
    ELSE PunyPass(label, i + 1, n, b, st)

\* punycode: the passes, one per code point outside ASCII, in rising order
RECURSIVE PunyLoop(_, _, _, _)
PunyLoop(label, n, b, st) ==
    IF st.h >= Len(label) THEN st.out
    ELSE PunyLoop(label,
                  Min({CodePoint(label[i]) : i \in 1..Len(label)} \ (0..(n - 1))) + 1,
                  b,
                  [PunyPass(label, 1,
                            Min({CodePoint(label[i]) : i \in 1..Len(label)} \ (0..(n - 1))),
                            b,
                            [st EXCEPT !.delta = @ +
                                (Min({CodePoint(label[i]) : i \in 1..Len(label)} \ (0..(n - 1))) - n)
                                * (st.h + 1)])
                   EXCEPT !.delta = @ + 1])

\* str.encode("punycode"): the ASCII characters, "-" if there is one, then
\* the digits
Punycode(label) ==
    SelectSeq(label, LAMBDA c : c \notin NonAscii)
    \o (IF \E i \in 1..Len(label) : label[i] \notin NonAscii THEN <<"-">> ELSE <<>>)
    \o PunyLoop(label, 128,
                Cardinality({i \in 1..Len(label) : label[i] \notin NonAscii}),
                [delta |-> 0, bias |-> 72,
                 h |-> Cardinality({i \in 1..Len(label) : label[i] \notin NonAscii}),
                 out |-> <<>>])

ACE_PREFIX == <<"x", "n", "-", "-">>

\* encodings.idna.ToASCII for a label with a character outside ASCII, once
\* nameprep has run
ToASCIIPrepped(prepped) ==
    IF Len(prepped) >= 4 /\ SubSeq(prepped, 1, 4) = ACE_PREFIX THEN UnicodeError
    ELSE IF Len(ACE_PREFIX \o Punycode(prepped)) >= 64 THEN UnicodeError
    ELSE ACE_PREFIX \o Punycode(prepped)

\* encodings.idna.ToASCII
ToASCII(label) ==
    IF IsAscii(label)
    THEN (IF 0 < Len(label) /\ Len(label) < 64 THEN label ELSE UnicodeError)
    ELSE ToASCIIPrepped(Nameprep(label))

\* The position of the j-th sep in s: 0 for j = 0, past the end when s has
\* fewer
SepPos(s, sep, j) ==
    IF j = 0 THEN 0
    ELSE IF j > Cardinality({k \in 1..Len(s) : s[k] = sep}) THEN Len(s) + 1
    ELSE CHOOSE k \in 1..Len(s) :
             s[k] = sep /\ Cardinality({m \in 1..k : s[m] = sep}) = j

\* s.split(sep) for a separator of one character
SplitOn(s, sep) ==
    [j \in 1..(Cardinality({k \in 1..Len(s) : s[k] = sep}) + 1) |->
        SubSeq(s, SepPos(s, sep, j - 1) + 1, SepPos(s, sep, j) - 1)]

\* sep.join(parts), from the i-th part on
RECURSIVE JoinFrom(_, _, _)
JoinFrom(parts, sep, i) ==
    IF i > Len(parts) THEN <<>>
    ELSE IF i = Len(parts) THEN parts[i]
    ELSE parts[i] \o sep \o JoinFrom(parts, sep, i + 1)

\* sep.join(parts)
Join(parts, sep) == JoinFrom(parts, sep, 1)

\* The labels ToASCII is applied to: a final empty label is left out
IdnaLabels(labels) ==
    IF labels[Len(labels)] = <<>> THEN SubSeq(labels, 1, Len(labels) - 1)
    ELSE labels

\* encodings.idna.Codec.encode for a string with a character outside ASCII
IdnaEncodeLabels(labels, encoded) ==
    IF \E i \in 1..Len(encoded) : encoded[i] = UnicodeError THEN UnicodeError
    ELSE Join(encoded, <<".">>)
         \o (IF labels[Len(labels)] = <<>> THEN <<".">> ELSE <<>>)

\* encodings.idna.Codec.encode for an ASCII string
IdnaEncodeAscii(s, labels) ==
    IF /\ \A i \in 1..(Len(labels) - 1) : 0 < Len(labels[i]) /\ Len(labels[i]) < 64
       /\ Len(labels[Len(labels)]) < 64
    THEN s
    ELSE UnicodeError

\* encodings.idna.Codec.encode for a string with a character outside
\* ASCII: ToASCII of every label
IdnaEncodeEach(labels, kept) ==
    IdnaEncodeLabels(labels, [i \in 1..Len(kept) |-> ToASCII(kept[i])])

\* s.encode("IDNA").decode("UTF-8"): the text, or UnicodeError when it raises
IdnaEncode(s) ==
    IF s = <<>> THEN <<>>
    ELSE IF IsAscii(s) THEN IdnaEncodeAscii(s, SplitOn(s, "."))
    ELSE IdnaEncodeEach(SplitOn(s, "."), IdnaLabels(SplitOn(s, ".")))

\* ------------------------------------------------------------------------
\* determine_separator and domain_to_idna
\* ------------------------------------------------------------------------

\* The separator of a line: the tab or the space, whichever comes first,
\* "" when the line has neither
determine_separator(line) ==
    IF Find(line, "\t") > -1 /\ Find(line, " ") > -1
    THEN (IF Find(line, " ") < Find(line, "\t") THEN " " ELSE "\t")
    ELSE IF Find(line, "\t") # -1 THEN "\t"
    ELSE IF Find(line, " ") # -1 THEN " "
    ELSE ""

\* Lines 381-385: the index the while loop stops at
TokenIndex(splited_line) ==
    IF \E i \in 2..Len(splited_line) : splited_line[i] # <<>>
    THEN Min({i \in 2..Len(splited_line) : splited_line[i] # <<>>})
    ELSE Len(splited_line) + 1

\* Line 394: the comment put back after the encoded part, unless the codec
\* raised
Reattach(encoded, comment) ==
    IF encoded = UnicodeError THEN UnicodeError ELSE encoded \o comment

\* Lines 387-395: the token after the if on "#", or UnicodeError
CommentStep(token) ==
    IF Find(token, "#") > -1
    THEN Reattach(IdnaEncode(SliceTo(token, Find(token, "#"))),
                  SubSeq(token, Find(token, "#") + 1, Len(token)))
    ELSE token

\* Line 397: the token, as lines 387-395 left it, is encoded
SecondEncode(token) ==
    IF token = UnicodeError THEN UnicodeError ELSE IdnaEncode(token)

\* Lines 387-397: what the token at index becomes
EncodeToken(token) == SecondEncode(CommentStep(token))

\* A variant that re-joins the tokens without the empty ones
ReplaceToken_drop_empty(splited_line, index, separator, encoded) ==
    IF encoded = UnicodeError THEN UnicodeError
    ELSE Join(SelectSeq([splited_line EXCEPT ![index] = encoded],
                        LAMBDA t : t # <<>>),
              <<separator>>)

\* Lines 397-400: the token at index replaced, the tokens joined again
ReplaceToken(splited_line, index, separator, encoded) ==
    IF encoded = UnicodeError THEN UnicodeError
    ELSE Join([splited_line EXCEPT ![index] = encoded], <<separator>>)

\* Lines 380-400: IndexError, caught, leaves the tokens as they are
\* A variant without the except IndexError of lines 398-399
EncodeSplit_propagates(splited_line, index, separator) ==
    IF index > Len(splited_line) THEN UnicodeError
    ELSE ReplaceToken(splited_line, index, separator,
                      EncodeToken(splited_line[index]))

EncodeSplit(splited_line, index, separator) ==
    IF index > Len(splited_line) THEN Join(splited_line, <<separator>>)
    ELSE ReplaceToken(splited_line, index, separator,
                      EncodeToken(splited_line[index]))

\* Lines 378-401, given the separator
EncodeLine(line, separator, splited_line) ==
    IF separator = "" THEN IdnaEncode(line)
    ELSE EncodeSplit(splited_line, TokenIndex(splited_line), separator)

\* domain_to_idna(line): the line it returns, or UnicodeError when the
\* codec raises
domain_to_idna(line) ==
    IF line # <<>> /\ line[1] = "#" THEN line
    ELSE EncodeLine(line, determine_separator(line),
                    SplitOn(line, determine_separator(line)))

\* ------------------------------------------------------------------------
\* domain_to_idna called directly, as the unit tests call it
\* ------------------------------------------------------------------------

\* A line is prefix \o sep \o domain \o inline \o trailing: an address (or
\* the start of a comment), the whitespace after it, a domain, a comment
\* glued to the domain and what follows after more whitespace
IdnaPrefixes == {<<>>, IP_ZERO, <<"#">>}

IdnaSeps == {Spaces(n) : n \in 0..MaxPad} \cup {TAB, SP \o TAB}

IdnaDomains == {<<>>, HOST_AB, <<N_TILDE, ".", "b">>,
                <<SMALL_CAPITAL_G, "o", ".", "B">>, <<"a", ".", ".", "b">>}

IdnaInlines == {<<>>, <<"#", "c">>, <<"#", N_TILDE>>}

IdnaTrailings == {<<>>, <<" ", "#", "c">>, <<" ", "#", " ", N_TILDE>>,
                  <<"\t", N_TILDE>>, SP}

IdnaCalls ==
    [prefix : IdnaPrefixes, sep : IdnaSeps, domain : IdnaDomains,
     inline : IdnaInlines, trailing : IdnaTrailings]

\* The line argument of a call
IdnaLine(c) == c.prefix \o c.sep \o c.domain \o c.inline \o c.trailing

InitIdna ==
    /\ call \in IdnaCalls
    /\ ret = <<>>
    /\ stdout = <<>>
    /\ pc = "domain_to_idna"
    /\ settings = DefaultSettings
    /\ temp_file = <<>>
    /\ temp_file_closed = FALSE
    /\ idx = 0
    /\ final_file = <<>>
    /\ written_from = <<>>
    /\ hostnames = {}
    /\ number_of_rules = 0
    /\ bodies = <<>>
    /\ NoSources

\* The call returns the line, or the codec's UnicodeError leaves it
domain_to_idna_call ==
    /\ pc = "domain_to_idna"
    /\ ret' = domain_to_idna(IdnaLine(call))
    /\ pc' = IF domain_to_idna(IdnaLine(call)) = UnicodeError
             THEN "UnicodeError" ELSE "encoded"
    /\ UNCHANGED <<settings, temp_file, temp_file_closed, idx, final_file, written_from,
                   hostnames, number_of_rules, stdout, call,
                   bodies, update_vars>>

NextIdna == domain_to_idna_call

SpecIdna == InitIdna /\ [][NextIdna]_vars

\* The tokens of the line of the call and of the line returned, for a line
\* with a separator
TokensIn == SplitOn(IdnaLine(call), determine_separator(IdnaLine(call)))

TokensOut == SplitOn(ret, determine_separator(IdnaLine(call)))

\* i is the first non-empty token after the first token
IsSelected(tokens, i) ==
    /\ i \in 2..Len(tokens)
    /\ tokens[i] # <<>>
    /\ \A k \in 2..(i - 1) : tokens[k] = <<>>

\* C13: the line domain_to_idna returns differs from its argument in at
\* most one token, the first non-empty token after the first one (or is
\* the whole line re-encoded when there is no separator); the number and
\* the place of the separators, the other tokens and their order are
\* unchanged, and a line that starts with "#" is returned as it is.
C13_OnlySelectedTokenChanges ==
    pc = "encoded" =>
        IF IdnaLine(call) # <<>> /\ IdnaLine(call)[1] = "#"
        THEN ret = IdnaLine(call)
        ELSE determine_separator(IdnaLine(call)) # "" =>
                 /\ Len(TokensOut) = Len(TokensIn)
                 /\ \A i \in 1..Len(TokensIn) :
                        TokensOut[i] # TokensIn[i] => IsSelected(TokensIn, i)

\* C13 witness: "0.0.0.0", two spaces, a domain outside ASCII and a comment
\* outside ASCII came back with the domain encoded and nothing else changed
C13_Witness ==
    /\ pc = "encoded"
    /\ call.prefix = IP_ZERO
    /\ call.sep = Spaces(2)
    /\ call.domain = <<N_TILDE, ".", "b">>
    /\ call.inline = <<>>
    /\ call.trailing = <<" ", "#", " ", N_TILDE>>
    /\ ret = IP_ZERO \o Spaces(2) \o <<"x", "n", "-", "-", "i", "d", "a", ".", "b">>
             \o <<" ", "#", " ", N_TILDE>>

\* C14: when the selected token (the whole line when there is no
\* separator) has a "#", the result has the encoding of the part before the
\* first "#" followed by the text from that "#" on exactly as it was.
C14_CommentOfTokenNotEncoded ==
    (pc = "encoded" /\ ~(IdnaLine(call) # <<>> /\ IdnaLine(call)[1] = "#")) =>
        IF determine_separator(IdnaLine(call)) = ""
        THEN Find(IdnaLine(call), "#") > -1 =>
                 ret = IdnaEncode(SliceTo(IdnaLine(call), Find(IdnaLine(call), "#")))
                       \o SubSeq(IdnaLine(call), Find(IdnaLine(call), "#") + 1,
                                 Len(IdnaLine(call)))
        ELSE \A i \in 1..Len(TokensIn) :
                 (IsSelected(TokensIn, i) /\ Find(TokensIn[i], "#") > -1) =>
                     TokensOut[i] =
                         IdnaEncode(SliceTo(TokensIn[i], Find(TokensIn[i], "#")))
                         \o SubSeq(TokensIn[i], Find(TokensIn[i], "#") + 1,
                                   Len(TokensIn[i]))

\* ------------------------------------------------------------------------
\* update_all_sources, one source per step
\* ------------------------------------------------------------------------

\* Longest list of sources
MaxSources == 2

\* req.text of a GET: a plain rule with "\r\n" and a comment; rules with a
\* domain outside ASCII; a bare domain outside ASCII with a comment; a rule
\* with an empty label, on which the codec raises
TEXT_PLAIN == IP_ZERO \o SP \o HOST_AB \o <<"\r", "\n", "#", "c", "\n">>
TEXT_IDN == IP_ZERO \o SP \o <<N_TILDE, ".", "b", "\n", N_TILDE, ".", "b">>
TEXT_BARE_COMMENT == <<N_TILDE, ".", "b", " ", "#", "c">>
TEXT_EMPTY_LABEL == IP_ZERO \o SP \o <<"a", ".", ".", "b">>

RemoteTexts == {TEXT_PLAIN, TEXT_IDN, TEXT_BARE_COMMENT, TEXT_EMPTY_LABEL}

\* The hosts file a source has from an earlier run, and its size
OLD_HOSTS == <<"o", "l", "d">>
OldSize == 2

\* What the server of a source does: how requests.head and requests.get
\* end, the Content-Length header of its answers (0 also stands for no
\* header) and the text of the GET
Servers ==
    {s \in [head : {"ok", "404", "RequestException"},
            length : {0, OldSize, OldSize + 1},
            get : {"ok", "404", "RequestException"},
            text : RemoteTexts] :
        /\ s.get # "ok" => s.text = TEXT_PLAIN
        /\ s.text # TEXT_PLAIN => (s.head = "ok" /\ s.length = OldSize + 1)
        /\ s.head # "ok" => s.length = OldSize + 1}

\* A source on disk: the file_size of its info.json and its hosts file,
\* None when there is none yet
Locals == {[file_size |-> 0, hosts |-> None],
           [file_size |-> OldSize, hosts |-> OLD_HOSTS]}

InitUpdate ==
    /\ \E n \in 0..MaxSources :
           /\ sources \in [1..n -> Locals]
           /\ remote \in [1..n -> Servers]
    /\ call = sources
    /\ http_log = <<>>
    /\ src_pos = 0
    /\ pc = "update_all_sources"
    /\ ret = <<>>
    /\ stdout = <<>>
    /\ settings = DefaultSettings
    /\ temp_file = <<>>
    /\ temp_file_closed = FALSE
    /\ idx = 0
    /\ final_file = <<>>
    /\ written_from = <<>>
    /\ hostnames = {}
    /\ number_of_rules = 0
    /\ bodies = <<>>

\* A variant that takes a failed HEAD request for a change
is_remote_file_changed_on_error(cur_file_size, server) ==
    IF server.head # "ok" THEN TRUE ELSE server.length > cur_file_size

\* is_remote_file_changed(cur_file_size, url)
is_remote_file_changed(cur_file_size, server) ==
    IF server.head # "ok" THEN FALSE ELSE server.length > cur_file_size

\* What is_remote_file_changed prints
HeadPrint(server, i) ==
    IF server.head = "RequestException"
    THEN << <<"Error retrieving meta data from", i>> >>
    ELSE IF server.head = "404" THEN << <<"404:", i>> >>
    ELSE <<>>

\* Line 314: domain_to_idna(line.strip()) for every line
EncodeEach(lines) ==
    [k \in 1..Len(lines) |-> domain_to_idna(Strip(lines[k]))]

\* Line 314, for the lines of req.text
EncodedLines(text) == EncodeEach(SplitOn(text, "\n"))

\* Lines 313-315, given the encoded lines
FetchResult(server, encoded) ==
    IF \E k \in 1..Len(encoded) : encoded[k] = UnicodeError
    THEN [raised |-> TRUE, data |-> None, size |-> 0]
    ELSE [raised |-> FALSE, data |-> Join(encoded, <<"\n">>),
          size |-> server.length]

\* get_file_by_url(url): the data and the size it returns, or raised when
\* domain_to_idna raises
get_file_by_url(server) ==
    IF server.get # "ok" THEN [raised |-> FALSE, data |-> None, size |-> 0]
    ELSE FetchResult(server, EncodedLines(server.text))

\* What get_file_by_url prints
GetPrint(server, i) ==
    IF server.get = "RequestException"
    THEN << <<"Error retrieving data from", i>> >>
    ELSE IF server.get = "404" THEN << <<"404:", i>> >>
    ELSE <<>>

\* Line 174: not file_exists or is_remote_file_changed(file_size, file_url);
\* the HEAD request is made only for a source that has a hosts file
NeedsUpdate(local, server) ==
    local.hosts = None \/ is_remote_file_changed(local.file_size, server)

HeadLog(local, i) == IF local.hosts = None THEN <<>> ELSE << <<"HEAD", i>> >>

HeadOut(local, server, i) ==
    IF local.hosts = None THEN <<>> ELSE HeadPrint(server, i)

\* A variant without the except clause
AfterException_propagates == "UnicodeError"

\* Lines 189-190: the except clause takes every exception of the try block
\* and the for loop goes on
AfterException == "update_all_sources"

\* The source is up to date: nothing is fetched
update_source_unchanged ==
    /\ pc = "update_all_sources"
    /\ src_pos < Len(sources)
    /\ ~NeedsUpdate(sources[src_pos + 1], remote[src_pos + 1])
    /\ http_log' = http_log \o HeadLog(sources[src_pos + 1], src_pos + 1)
    /\ stdout' = stdout \o << <<"Checking updates for source", src_pos + 1>> >>
                 \o HeadOut(sources[src_pos + 1], remote[src_pos + 1], src_pos + 1)
    /\ src_pos' = src_pos + 1
    /\ UNCHANGED <<settings, temp_file, temp_file_closed, idx, final_file, written_from,
                   hostnames, number_of_rules, pc, call, ret, bodies,
                   sources, remote>>

\* Lines 177, 189-190 for a fetch that gave no data
FailedEffect(result) ==
    /\ result.data = None
    /\ stdout' = stdout \o << <<"Checking updates for source", src_pos + 1>> >>
                 \o HeadOut(sources[src_pos + 1], remote[src_pos + 1], src_pos + 1)
                 \o << <<"Updating source", src_pos + 1>> >>
                 \o GetPrint(remote[src_pos + 1], src_pos + 1)
                 \o (IF result.raised
                     THEN << <<"Error in updating source", src_pos + 1>> >>
                     ELSE <<>>)
    /\ pc' = IF result.raised THEN AfterException ELSE "update_all_sources"

\* The fetch returns None or raises: nothing is written
update_source_failed ==
    /\ pc = "update_all_sources"
    /\ src_pos < Len(sources)
    /\ NeedsUpdate(sources[src_pos + 1], remote[src_pos + 1])
    /\ FailedEffect(get_file_by_url(remote[src_pos + 1]))
    /\ http_log' = http_log \o HeadLog(sources[src_pos + 1], src_pos + 1)
                   \o << <<"GET", src_pos + 1>> >>
    /\ src_pos' = src_pos + 1
    /\ UNCHANGED <<settings, temp_file, temp_file_closed, idx, final_file, written_from,
                   hostnames, number_of_rules, call, ret, bodies,
                   sources, remote>>

\* Lines 177-188 for a fetch that gave the text
WrittenEffect(result) ==
    /\ result.data # None
    /\ sources' = [sources EXCEPT ![src_pos + 1] =
           [file_size |-> result.size,
            hosts |-> SelectSeq(result.data, LAMBDA c : c # "\r")]]

\* The fetch returns the text: the hosts file and info.json are written
update_source_written ==
    /\ pc = "update_all_sources"
    /\ src_pos < Len(sources)
    /\ NeedsUpdate(sources[src_pos + 1], remote[src_pos + 1])
    /\ WrittenEffect(get_file_by_url(remote[src_pos + 1]))
    /\ http_log' = http_log \o HeadLog(sources[src_pos + 1], src_pos + 1)
                   \o << <<"GET", src_pos + 1>> >>
    /\ stdout' = stdout \o << <<"Checking updates for source", src_pos + 1>> >>
                 \o HeadOut(sources[src_pos + 1], remote[src_pos + 1], src_pos + 1)
                 \o << <<"Updating source", src_pos + 1>> >>
    /\ src_pos' = src_pos + 1
    /\ UNCHANGED <<settings, temp_file, temp_file_closed, idx, final_file, written_from,
                   hostnames, number_of_rules, pc, call, ret, bodies, remote>>

\* The for loop is over
update_all_sources_end ==
    /\ pc = "update_all_sources"
    /\ src_pos = Len(sources)
    /\ pc' = "updated"
    /\ UNCHANGED <<settings, temp_file, temp_file_closed, idx, final_file, written_from,
                   hostnames, number_of_rules, stdout, call, ret, bodies,
                   update_vars>>

NextUpdate ==
    \/ update_source_unchanged
    \/ update_source_failed
    \/ update_source_written
    \/ update_all_sources_end

SpecUpdate == InitUpdate /\ [][NextUpdate]_vars

\* ------------------------------------------------------------------------
\* Claims about update_all_sources, checked under SpecUpdate
\* ------------------------------------------------------------------------

\* Number of GET requests made for source i
GetCount(i) ==
    Cardinality({k \in 1..Len(http_log) : http_log[k] = <<"GET", i>>})

\* The fetch of source i fails: a request error, a 404 or an exception
FetchFails(i) == get_file_by_url(remote[i]).data = None

\* C15: the hosts file written for a fetched source is the fetched text
\* with every line passed through domain_to_idna once, and no character
\* outside ASCII is left in it, whatever the shape of its lines.
C15_CachedHostsAreAscii ==
    \A i \in 1..src_pos :
        (GetCount(i) = 1 /\ ~FetchFails(i)) =>
            /\ sources[i].hosts =
                   SelectSeq(Join(EncodedLines(remote[i].text), <<"\n">>),
                             LAMBDA c : c # "\r")
            /\ IsAscii(sources[i].hosts)

\* C16: a source whose fetch fails keeps its hosts file and its file_size
\* as they were, no exception leaves update_all_sources, every source of
\* the list is checked whatever happened to the ones before it, and a
\* source whose fetch succeeds has its hosts file and its file_size written.
C16_FailedFetchWritesNothing ==
    /\ pc \in {"update_all_sources", "updated"}
    /\ pc = "updated" => src_pos = Len(sources)
    /\ \A i \in 1..src_pos :
           /\ \E k \in 1..Len(stdout) :
                  stdout[k] = <<"Checking updates for source", i>>
           /\ (GetCount(i) = 1 /\ FetchFails(i)) => sources[i] = call[i]
           /\ (GetCount(i) = 1 /\ ~FetchFails(i)) =>
                  /\ sources[i].hosts \notin {None, call[i].hosts}
                  /\ sources[i].file_size = remote[i].length

\* C16 witness: the fetch of the first source raised, the second source
\* was fetched and written after it
C16_Witness ==
    /\ pc = "updated"
    /\ Len(sources) = 2
    /\ remote[1].text = TEXT_EMPTY_LABEL
    /\ GetCount(1) = 1
    /\ sources[1] = call[1]
    /\ remote[2].get = "ok"
    /\ GetCount(2) = 1
    /\ sources[2] # call[2]

\* C17: in one run a source is fetched at most once, and it is fetched
\* exactly when it has no hosts file or the HEAD request succeeds with a
\* Content-Length strictly greater than the recorded file_size; a failed
\* fetch is not tried again.
C17_FetchedOnceExactlyWhenChanged ==
    \A i \in 1..Len(sources) :
        /\ GetCount(i) <= 1
        /\ i > src_pos => GetCount(i) = 0
        /\ i <= src_pos =>
               (GetCount(i) = 1 <=>
                    \/ call[i].hosts = None
                    \/ /\ remote[i].head = "ok"
                       /\ remote[i].length > call[i].file_size)

\* C17 witness: a source with a hosts file whose HEAD request failed was
\* not fetched, and a source whose GET ended in a 404 was fetched once
C17_Witness ==
    /\ pc = "updated"
    /\ Len(sources) = 2
    /\ call[1].hosts # None
    /\ remote[1].head = "RequestException"
    /\ remote[1].get = "ok"
    /\ GetCount(1) = 0
    /\ remote[2].get = "404"
    /\ GetCount(2) = 1


    /\ pc = "write_final_file" /\ idx = 0 => hostnames = ReservedHostnames

\* The call main makes: the first one, with the counter starting at the
\* default of the settings
FirstRun == bodies = <<>> \/ (Len(bodies) = 1 /\ pc \in {"done", "header"})

\* The staging lines written so far through normalize_rule: those written
\* that did not take the branch of line 546
NormalizedWritten ==
    {n \in Written : settings.minimise \/ ~FirstCharTest(LineOf(n))}

\* The hostname a line of the body carries: with an empty target ip the
\* body is a list of bare domains, the first token of every line that is
\* neither blank nor a comment
BodyDomain(data) ==
    IF settings.empty_target_ip
    THEN IF IsRuleLine(data) THEN Split(data)[1] ELSE None
    ELSE BodyKey(data)

\* The hostnames the lines of the body carry
BodyDomains == {BodyDomain(final_file[i]) : i \in BodyPieces} \ {None}

\* The counter equals the number of normalized rule lines written and the
\* size of the set without its four reserved names; the value stored at the
\* end is the counter
CounterTracksWrites ==
    FirstRun =>
        /\ number_of_rules = Cardinality(NormalizedWritten)
        /\ number_of_rules = Cardinality(hostnames) - Cardinality(ReservedHostnames)
        /\ pc \in {"done", "header"} => settings.number_of_rules = number_of_rules

\* The header in front of the body is the one that gives the number of
\* distinct hostnames of the body in its line of the count
HeaderCountsBodyDomains ==
    pc = "header" =>
        final_file[1] =
            HeaderData([MainSettings(settings) EXCEPT
                            !.number_of_rules = Cardinality(BodyDomains)],
                       call).data

\* C19: after every line the counter equals the number of normalized rule
\* lines written so far and the size of the set of seen hostnames less its
\* four reserved names; the set only grows during a run; at the end the
\* counter is stored in settings["number_of_rules"], and the header main
\* writes gives it as the number of unique domains of the body.
C19_CounterIsUniqueDomainsOfBody ==
    /\ [](CounterTracksWrites /\ HeaderCountsBodyDomains)
    /\ [][pc = "write_final_file" => hostnames \subseteq hostnames']_vars

\* ---------------------------------------------------------------------
\* The shape of what normalize_rule returns (specification SpecNormalize)
\* ---------------------------------------------------------------------

\* The text ends with a newline and has no newline before it
EndsWithOneNewline(text) ==
    /\ text # <<>>
    /\ text[Len(text)] = "\n"
    /\ Len(text) > 1 => text[Len(text) - 1] # "\n"

\* C20: for every rule, target_ip and keep_domain_comments, normalize_rule
\* returns (None, None), or a non-empty key with an output text that ends
\* with exactly one newline; key and output are None together or not at all.
C20_NoneOrKeyAndOneNewline ==
    pc = "returned" =>
        \/ ret = <<None, None>>
        \/ /\ ret[1] # None /\ ret[1] # <<>>
           /\ ret[2] # None /\ EndsWithOneNewline(ret[2])

\* C20: a rule that ends with a newline after its trailing text is accepted
\* and the text is kept as a comment
C20_Witness ==
    /\ pc = "returned"
    /\ call.suffix = <<" ", "c", "\n">>
    /\ call.keep_domain_comments /\ call.target_ip # <<>>
    /\ ret[1] = HOST_AB
    /\ Count(ret[2], "c") = 1

\* ---------------------------------------------------------------------
\* Claims about the pass as a whole (specification Spec)
\* ---------------------------------------------------------------------

\* C21: no line aborts the pass: the loop is never left by an exception,
\* lines are taken one by one in stream order, and the pass ends only with
\* the whole stream read and the counter stored.
C21_NoLineAbortsThePass ==
    /\ pc # "IndexError"
    /\ idx \in 0..Len(temp_file)
    /\ Written \subseteq 1..idx
    /\ pc \in {"done", "header"} =>
          idx = Len(temp_file) /\ settings.number_of_rules = number_of_rules

\* Every run of tabs of s replaced by one space
RECURSIVE CollapseTabs(_)
CollapseTabs(s) ==
    IF s = <<>> THEN <<>>
    ELSE IF s[1] # "\t" THEN <<s[1]>> \o CollapseTabs(Tail(s))
    ELSE IF Len(s) > 1 /\ s[2] = "\t" THEN CollapseTabs(Tail(s))
    ELSE <<" ">> \o CollapseTabs(Tail(s))

\* The line with its tab runs collapsed and the spaces and periods at the
\* end of its text removed, the newline that ends it kept
Trimmed(raw) ==
    IF raw # <<>> /\ raw[Len(raw)] = "\n"
    THEN RStrip(CollapseTabs(SubSeq(raw, 1, Len(raw) - 1)), {" ", "."}) \o NL
    ELSE RStrip(CollapseTabs(raw), {" ", "."})

\* C25: before a line is classified every run of tabs in it is replaced by
\* one space and the spaces and periods at its end are removed, also when
\* the line ends with a newline; the line is then written, dropped and
\* counted exactly as the same line written with single spaces and no
\* trailing period.
C25_TabsAndTrailingPeriodsTidied ==
    \A n \in 1..idx :
        /\ LineOf(n) = Trimmed(temp_file[n])
        /\ Trimmed(temp_file[n]) # <<>> =>
              LoopBody(temp_file[n], settings, ReservedHostnames)
                  = LoopBody(Trimmed(temp_file[n]), settings, ReservedHostnames)

\* ---------------------------------------------------------------------
\* The token walk of domain_to_idna running off the end (SpecIdna)
\* ---------------------------------------------------------------------

\* The line has a separator and only empty tokens after the first one
WalksOffTheEnd ==
    /\ IdnaLine(call) # <<>> /\ IdnaLine(call)[1] # "#"
    /\ determine_separator(IdnaLine(call)) # ""
    /\ \A i \in 2..Len(TokensIn) : TokensIn[i] = <<>>

\* C26: a line with a separator and no non-empty token after the first
\* one does not make domain_to_idna fail; it is returned as it is, no token
\* encoded.
C26_NoTokenLeavesLineUnmodified ==
    pc # "domain_to_idna" /\ WalksOffTheEnd =>
        pc = "encoded" /\ ret = IdnaLine(call)

\* C26: a domain outside ASCII followed by one space, and nothing else, came
\* back as it was
C26_Witness ==
    /\ pc = "encoded"
    /\ WalksOffTheEnd
    /\ ~IsAscii(IdnaLine(call))
    /\ ret = IdnaLine(call)

\* ---------------------------------------------------------------------
\* What a pass leaves alone (specification Spec)
\* ---------------------------------------------------------------------

\* The settings without the counter
OtherSettings(st) == [st EXCEPT !.number_of_rules = 0]

\* C27: no step of write_final_file changes a setting other than
\* number_of_rules, and handling a line (strip_rule, matches_exclusions,
\* normalize_rule included) changes no setting at all and takes nothing out
\* of the set of seen hostnames: the set gains at most the key of the rule
\* just written.
C27_OnlyCounterSettingChanges ==
    [][/\ OtherSettings(settings') = OtherSettings(settings)
       /\ (pc = "write_final_file" /\ pc' = "write_final_file") =>
             /\ settings' = settings
             /\ hostnames \subseteq hostnames'
             /\ Cardinality(hostnames' \ hostnames) <= 1
             /\ hostnames' # hostnames => Len(final_file') = Len(final_file) + 1]_vars

\* C27: a pass with an exclusion word and an exclusion regex configured
\* has ended, two rules written and counted
C27_Witness ==
    /\ pc = "done"
    /\ settings.number_of_rules = 2
    /\ settings.exclusions = <<HOST_AB>>
    /\ settings.exclusion_regexes = <<HOST_AB>>
    /\ settings.minimise

\* The keys of the rules written from the lines before line n
KeysWrittenBefore(n) == {LineKey(m) : m \in {k \in NormalizedWritten : k < n}}

\* C28: handling a line that writes nothing leaves the output, the set of
\* seen hostnames and the counter as they were; so a line that passes every
\* check of its own is written unless a rule with its key was written
\* before it, whatever dropped lines with that hostname came earlier.
C28_DroppedLineLeavesNoTrace ==
    /\ [][(pc = "write_final_file" /\ pc' = "write_final_file"
           /\ final_file' = final_file) =>
             hostnames' = hostnames /\ number_of_rules' = number_of_rules]_vars
    /\ [](\A n \in 1..idx :
              n \notin Written =>
                  ~(KeptAlone(n) /\ LineKey(n) \notin KeysWrittenBefore(n)))

\* C28: the word list vetoed the rule of a.b, and the next line, the same
\* hostname in upper case, was written and counted as the first of its key
C28_Witness ==
    /\ idx = 2
    /\ settings.exclusions = <<HOST_AB>>
    /\ temp_file[1] = IP_ZERO \o SP \o HOST_AB \o NL
    /\ written_from = <<2>>
    /\ LineKey(2) = HOST_AB
    /\ number_of_rules = 1

\* C29: with minimise off, every line written after normalization is the
\* target ip, one space, the key and a newline (the key and a newline when
\* the target ip is empty): no suffix and no comment of the source rule is
\* carried into it.
C29_UnminimisedRuleHasNoSuffix ==
    ~settings.minimise =>
        \A i \in 1..Len(written_from) :
            written_from[i] \in NormalizedWritten =>
                /\ final_file[i] =
                       (IF TargetIp(settings) = <<>> THEN <<>>
                        ELSE TargetIp(settings) \o SP)
                       \o LineKey(written_from[i]) \o NL
                /\ LineKey(written_from[i]) \in hostnames
                /\ ~Contains(final_file[i], <<"#">>)

\* C29: a rule with an inline comment and a rule with trailing text were
\* both written, minimise off, as target ip, key and newline
C29_Witness ==
    /\ ~settings.minimise /\ ~settings.empty_target_ip
    /\ idx = 2
    /\ temp_file[1] = IP_ZERO \o SP \o HOST_CD \o <<" ", "#", "c">> \o NL
    /\ temp_file[2] = IP_ZERO \o SP \o HOST_AB \o <<" ", "c">> \o NL
    /\ final_file = <<IP_ZERO \o SP \o HOST_CD \o NL, IP_ZERO \o SP \o HOST_AB \o NL>>

\* ---------------------------------------------------------------------
\* write_opening_header called on an output file (specification
\* SpecHeader).  Here final_file holds the bytes of the file; settings is
\* the dict handed to the call, a function whose domain is the keys present.
\* ---------------------------------------------------------------------

\* The settings write_opening_header reads, every one present
FullHeaderSettings ==
    [number_of_rules : {5, 1234567},
     output_file : {<<"h", "o", "s", "t", "s">>},
     skip_static_hosts : BOOLEAN,
     empty_target_ip : BOOLEAN,
     output_directory : {<<"a", "\\", "b">>},
     custom_host_file : {<<"m", "y", "h", "o", "s", "t", "s">>}]

\* A dict with some of the keys missing
HeaderSettings ==
    {[k \in keys |-> full[k]] :
        full \in FullHeaderSettings,
        keys \in SUBSET {"number_of_rules", "output_file", "skip_static_hosts",
                         "empty_target_ip", "output_directory", "custom_host_file"}}

\* The file before the call (empty, one rule, a body longer than the banner
\* top), the host the program runs on, the clock and the files on disk
HeaderCalls ==
    [body : {<<>>, IP_ZERO \o SP \o HOST_AB \o NL,
             BANNER_TOP \o STATIC_HOSTS \o IP_ZERO \o SP \o HOST_CD \o NL},
     settings : HeaderSettings,
     system : {"Linux", "Windows"},
     hostname : {<<"p", "c">>},
     date : {<<"3", "0", " ", "O", "c", "t", "o", "b", "e", "r", " ", "2", "0",
               "2", "6", " ", "0", "3", ":", "0", "0", ":", "0", "0", " ", "(",
               "G", "M", "T", ")">>},
     files : {<<>>, [p \in {<<"m", "y", "h", "o", "s", "t", "s">>} |->
                        <<"1", ".", "1", ".", "1", ".", "1", " ", "x", ".", "y">>]}]

InitHeader ==
    /\ call \in HeaderCalls
    /\ settings = call.settings
    /\ final_file = call.body
    /\ ret = <<>>
    /\ stdout = <<>>
    /\ pc = "write_opening_header"
    /\ temp_file = <<>>
    /\ temp_file_closed = FALSE
    /\ idx = 0
    /\ written_from = <<>>
    /\ hostnames = {}
    /\ number_of_rules = 0
    /\ bodies = <<>>
    /\ NoSources

\* A variant without the write of line 817
write_opening_header_returns_no_restore ==
    /\ pc = "write_opening_header"
    /\ ~HeaderData(settings, call).raised
    /\ final_file' = WriteAtStart(final_file, HeaderData(settings, call).data)
    /\ ret' = None
    /\ pc' = "returned"
    /\ UNCHANGED <<settings, temp_file, temp_file_closed, idx, written_from, hostnames,
                   number_of_rules, stdout, call, bodies, update_vars>>

\* The call returns: the header is written from the start of the file and
\* the contents read at line 745 after it (line 817)
write_opening_header_returns ==
    /\ pc = "write_opening_header"
    /\ ~HeaderData(settings, call).raised
    /\ final_file' = WriteAtStart(final_file,
                                  HeaderData(settings, call).data \o final_file)
    /\ ret' = None
    /\ pc' = "returned"
    /\ UNCHANGED <<settings, temp_file, temp_file_closed, idx, written_from, hostnames,
                   number_of_rules, stdout, call, bodies, update_vars>>

\* The call raises KeyError: what was written before stays in the file
write_opening_header_KeyError ==
    /\ pc = "write_opening_header"
    /\ HeaderData(settings, call).raised
    /\ final_file' = WriteAtStart(final_file, HeaderData(settings, call).data)
    /\ ret' = <<"KeyError">>
    /\ pc' = "KeyError"
    /\ UNCHANGED <<settings, temp_file, temp_file_closed, idx, written_from, hostnames,
                   number_of_rules, stdout, call, bodies, update_vars>>

NextHeader ==
    \/ write_opening_header_returns
    \/ write_opening_header_KeyError

SpecHeader == InitHeader /\ [][NextHeader]_vars

\* ---------------------------------------------------------------------
\* Claims about write_opening_header (specification SpecHeader)
\* ---------------------------------------------------------------------

\* The banner: title, date, count and fetch URL, up to the blank line
Banner ==
    BANNER_TOP \o call.date \o NL
    \o COUNT_LABEL \o FormatCount(settings.number_of_rules) \o <<"\n", "#", "\n">>
    \o FETCH_LABEL \o FilePath(settings) \o BANNER_END

\* The custom preamble file exists
PreambleExists ==
    /\ "custom_host_file" \in DOMAIN settings
    /\ settings.custom_host_file \in DOMAIN call.files

\* The static local entries, with the two entries of the local host name
\* on Linux, and a blank line: written exactly when skip_static_hosts is false
StaticEntries ==
    IF settings.skip_static_hosts THEN <<>>
    ELSE STATIC_HOSTS \o LinuxHosts(call.system, call.hostname) \o NL

\* The header block: the banner, the static entries, and the preamble
\* file's contents when with_preamble holds
HeaderBlock(with_preamble) ==
    Banner \o StaticEntries
    \o (IF with_preamble THEN call.files[settings.custom_host_file] \o NL
        ELSE <<>>)

\* The settings write_opening_header reads with settings[...]
RequiredHeaderKeys ==
    {"empty_target_ip", "output_file", "number_of_rules", "skip_static_hosts"}

\* The file ends with the bytes it held before the call
EndsWithOldBytes ==
    /\ Len(final_file) >= Len(call.body)
    /\ SubSeq(final_file, Len(final_file) - Len(call.body) + 1, Len(final_file))
           = call.body

\* The part of the header that comes before the first missing setting is
\* read: up to the date without number_of_rules, up to the count without
\* output_file, the banner without skip_static_hosts, the banner and the
\* static entries without empty_target_ip
HeaderBeforeMissing ==
    IF "number_of_rules" \notin DOMAIN settings
    THEN BANNER_TOP \o call.date \o NL
    ELSE IF "output_file" \notin DOMAIN settings
    THEN BANNER_TOP \o call.date \o NL \o COUNT_LABEL
         \o FormatCount(settings.number_of_rules) \o <<"\n", "#", "\n">>
    ELSE IF "skip_static_hosts" \notin DOMAIN settings
    THEN Banner
    ELSE Banner \o StaticEntries

\* The old bytes of the file that lie beyond the first n
OldBytesBeyond(n) == SubSeq(call.body, n + 1, Len(call.body))

\* C22 as stated: whatever the call, it leaves the file ending with the
\* bytes it held before (the body is neither truncated nor overwritten), and
\* after the call the file holds the header block and then those bytes; the
\* header block is the banner, the static entries exactly when
\* skip_static_hosts is false, and the preamble file's contents when the
\* file exists.
C22_HeaderThenBody_PreambleWhenExists ==
    pc # "write_opening_header" =>
        /\ EndsWithOldBytes
        /\ pc = "returned" =>
               final_file = HeaderBlock(PreambleExists) \o call.body

\* C22 amended: with the four required settings present the call returns
\* and the file holds the header block and then the bytes it held before,
\* the preamble file's contents being written when the file exists and
\* empty_target_ip is false; with one of them missing the call raises
\* KeyError and the file holds the part of the header that comes before the
\* missing setting, written over the start of the old bytes, and then the
\* old bytes that lie beyond that part: what was overwritten is not
\* written back.
C22_HeaderThenBody ==
    pc # "write_opening_header" =>
        IF RequiredHeaderKeys \subseteq DOMAIN settings
        THEN /\ pc = "returned"
             /\ final_file =
                    HeaderBlock(PreambleExists /\ ~settings.empty_target_ip)
                    \o call.body
        ELSE /\ pc = "KeyError"
             /\ final_file = HeaderBeforeMissing
                             \o OldBytesBeyond(Len(HeaderBeforeMissing))

\* C22: a body longer than the banner top got the banner, the static
\* entries with the Linux host lines and the preamble in front of it
C22_Witness ==
    /\ pc = "returned"
    /\ Len(call.body) > Len(BANNER_TOP)
    /\ ~settings.skip_static_hosts /\ ~settings.empty_target_ip
    /\ PreambleExists /\ call.system = "Linux"
    /\ Len(final_file) > Len(Banner) + Len(STATIC_HOSTS) + Len(call.body)
    /\ EndsWithOldBytes

\* C23: the call ends in KeyError, raised to the caller, exactly when one
\* of empty_target_ip, output_file, number_of_rules and skip_static_hosts
\* is missing, whatever the settings that are present hold.
C23_MissingSettingRaisesKeyError ==
    pc # "write_opening_header" =>
        /\ ~(RequiredHeaderKeys \subseteq DOMAIN settings) =>
               pc = "KeyError" /\ ret = <<"KeyError">>
        /\ RequiredHeaderKeys \subseteq DOMAIN settings =>
               pc = "returned" /\ ret = None

\* C23: with skip_static_hosts alone missing the call raised, after the
\* banner was written
C23_Witness ==
    /\ pc = "KeyError"
    /\ RequiredHeaderKeys \ DOMAIN settings = {"skip_static_hosts"}
    /\ settings.empty_target_ip
    /\ Len(final_file) >= Len(BANNER_TOP) + Len(FETCH_LABEL)

\* ---------------------------------------------------------------------
\* sort_sources called on a list of names (specification SpecSort).  Here
\* sources holds the caller's list.
\* ---------------------------------------------------------------------

\* The characters of the names, in the order of their code points
CODE_ORDER ==
    <<" ", "-", ".", "/">> \o DigitSeq \o UpperCase \o <<"_">> \o LowerCase

Ord(c) == CHOOSE i \in 1..Len(CODE_ORDER) : CODE_ORDER[i] = c

\* a < b for two str: the first difference decides, a proper prefix is less
RECURSIVE StrLess(_, _)
StrLess(a, b) ==
    IF b = <<>> THEN FALSE
    ELSE IF a = <<>> THEN TRUE
    ELSE IF a[1] # b[1] THEN Ord(a[1]) < Ord(b[1])
    ELSE StrLess(Tail(a), Tail(b))

\* Line 205: the key of the lambda
SortKey(x) ==
    Replace(Replace(Replace(Lower(x), <<"-">>, <<>>), <<"_">>, <<>>), <<" ">>, <<>>)

\* x put into a list sorted by key, after the entries whose key is not greater
RECURSIVE InsertByKey(_, _)
InsertByKey(sorted, x) ==
    IF sorted # <<>> /\ ~StrLess(SortKey(x), SortKey(sorted[1]))
    THEN <<sorted[1]>> \o InsertByKey(Tail(sorted), x)
    ELSE <<x>> \o sorted

\* sorted(list, key=...): a stable sort
RECURSIVE Sorted(_)
Sorted(list) ==
    IF list = <<>> THEN <<>>
    ELSE InsertByKey(Sorted(SubSeq(list, 1, Len(list) - 1)), list[Len(list)])

HRSHADHIN == <<"h", "r", "s", "h", "a", "d", "h", "i", "n">>

\* Line 208: the positions, in ascending order, of the names with hrshadhin
Positions(result) ==
    SelectSeq([i \in 1..Len(result) |-> i],
              LAMBDA i : Contains(Lower(result[i]), HRSHADHIN))

\* A variant that takes the positions from the last to the first
RECURSIVE MoveToFront_descending(_, _)
MoveToFront_descending(result, positions) ==
    IF positions = <<>> THEN result
    ELSE MoveToFront_descending(
             <<result[positions[Len(positions)]]>>
             \o SubSeq(result, 1, positions[Len(positions)] - 1)
             \o SubSeq(result, positions[Len(positions)] + 1, Len(result)),
             SubSeq(positions, 1, Len(positions) - 1))

\* Lines 210-211: result.insert(0, result.pop(index)) for each position
RECURSIVE MoveToFront(_, _)
MoveToFront(result, positions) ==
    IF positions = <<>> THEN result
    ELSE MoveToFront(<<result[positions[1]]>>
                     \o SubSeq(result, 1, positions[1] - 1)
                     \o SubSeq(result, positions[1] + 1, Len(result)),
                     Tail(positions))

sort_sources(list) == MoveToFront(Sorted(list), Positions(Sorted(list)))

MaxList == 3

SourceNames ==
    {<<"a">>, <<"B">>, <<"a", "-", "c">>, <<"a", "_", "b">>, <<"A", " ", "d">>,
     <<"z", "/">> \o HRSHADHIN,
     <<"H", "R", "s", "h", "a", "d", "h", "i", "n", ".", "x">>}

SortCalls == UNION {[1..n -> SourceNames] : n \in 0..MaxList}

InitSort ==
    /\ sources \in SortCalls
    /\ call = sources
    /\ ret = <<>>
    /\ pc = "sort_sources"
    /\ remote = <<>> /\ http_log = <<>> /\ src_pos = 0
    /\ settings = DefaultSettings
    /\ temp_file = <<>>
    /\ temp_file_closed = FALSE
    /\ idx = 0
    /\ final_file = <<>>
    /\ written_from = <<>>
    /\ hostnames = {}
    /\ number_of_rules = 0
    /\ stdout = <<>>
    /\ bodies = <<>>

\* The call works on sources.copy() and returns the new list
sort_sources_call ==
    /\ pc = "sort_sources"
    /\ ret' = sort_sources(sources)
    /\ pc' = "returned"
    /\ UNCHANGED <<settings, temp_file, temp_file_closed, idx, final_file, written_from,
                   hostnames, number_of_rules, stdout, call, bodies, update_vars>>

NextSort == sort_sources_call

SpecSort == InitSort /\ [][NextSort]_vars

\* The name contains hrshadhin, in any case
IsOwn(x) == Contains(Lower(x), HRSHADHIN)

\* Number of entries of list equal to x
Occurrences(list, x) == Cardinality({i \in 1..Len(list) : list[i] = x})

\* C24: sort_sources returns a permutation of its argument and leaves the
\* argument as it was; every name with hrshadhin comes before every name
\* without, and the names without are in ascending order of their
\* lower-cased name with "-", "_" and spaces removed.
C24_OwnFirstRestSortedByKey ==
    pc = "returned" =>
        /\ Len(ret) = Len(call)
        /\ \A x \in SourceNames : Occurrences(ret, x) = Occurrences(call, x)
        /\ sources = call
        /\ \A i \in 1..Len(ret) : \A j \in (i + 1)..Len(ret) :
              /\ IsOwn(ret[j]) => IsOwn(ret[i])
              /\ (~IsOwn(ret[i]) /\ ~IsOwn(ret[j])) =>
                    ~StrLess(SortKey(ret[j]), SortKey(ret[i]))

\* C24: two names with hrshadhin, given last, came back in front of an
\* upper-case name, which stays after a lower-case one
C24_Witness ==
    /\ pc = "returned"
    /\ Len(ret) = 3
    /\ IsOwn(ret[1]) /\ IsOwn(ret[2]) /\ ret[1] # ret[2]
    /\ ~IsOwn(call[1])
    /\ ret[3] = call[1]
====
